---- MODULE Spec2Model ----
(***************************************************************************)
(* A model of the OMR engine of gagansiddarth/OMR (backend/omr_core and    *)
(* backend/services/omr_processor.py).                                     *)
(*                                                                         *)
(* Conventions                                                             *)
(*  - A Python str is a sequence of one-character strings: "" is <<>>,     *)
(*    "AC" is <<"A","C">>; ''.join and == are \o and = on sequences.       *)
(*  - A Python dict is a sequence of <<key, value>> pairs with distinct    *)
(*    keys, in insertion order (assigning an existing key keeps its place).*)
(*  - Grey levels are even integers, so Python's x / 2 is exact and is     *)
(*    written x \div 2.                                                    *)
(*  - Marking-scheme points are integers (the unit is the smallest point   *)
(*    denomination of the scheme); float(...) of a valid scheme entry is   *)
(*    that integer.                                                        *)
(***************************************************************************)
EXTENDS Integers, Sequences, FiniteSets, TLC

VARIABLES
    template,     \* OMRCore.template: None or a Template
    evaluator,    \* OMRCore.evaluator: None or an OMREvaluator
    lastCall,     \* the most recent call on the core: its inputs and what it returned
    reqs,         \* the HTTP requests in flight on the server's event loop
    disk          \* the files templates/generated_template.json, default_template.json
                  \* and the file save_template writes

vars == <<template, evaluator, lastCall, reqs, disk>>

\* None, and the other values that are not records of the program, are records
\* of their own so that they compare with everything.
None == [none |-> TRUE]

\* An exception leaving a call.
Raise == [raise |-> TRUE]

(***************************************************************************)
(* Sequences and dicts                                                     *)
(***************************************************************************)
RECURSIVE Flatten(_)
Flatten(ss) == IF ss = <<>> THEN <<>> ELSE Head(ss) \o Flatten(Tail(ss))

RECURSIVE SumSeq(_)
SumSeq(s) == IF s = <<>> THEN 0 ELSE Head(s) + SumSeq(Tail(s))

Range(s) == {s[i] : i \in 1..Len(s)}

\* A dict is the sequence of its items.
DictKeys(d) == {d[i][1] : i \in 1..Len(d)}

\* d.get(k, default)
DictGet(d, k, default) ==
    IF k \in DictKeys(d) THEN d[CHOOSE i \in 1..Len(d) : d[i][1] = k][2] ELSE default

\* d.update(e) for a sequence e of pairs: a key of d keeps its place and takes
\* the last value e gives it; the keys new to d follow, in the order in which
\* e first names them.
DictUpdate(d, e) ==
    LET last(k) == e[CHOOSE i \in 1..Len(e) :
                        e[i][1] = k /\ \A j \in (i + 1)..Len(e) : e[j][1] # k][2]
        FirstNew(i) == e[i][1] \notin DictKeys(d) /\ \A j \in 1..(i - 1) : e[j][1] # e[i][1]
        new == SelectSeq([i \in 1..Len(e) |-> i], FirstNew)
    IN  [i \in 1..Len(d) |-> IF d[i][1] \in DictKeys(e) THEN <<d[i][1], last(d[i][1])>>
                             ELSE d[i]]
        \o [n \in 1..Len(new) |-> <<e[new[n]][1], last(e[new[n]][1])>>]

\* d[k] = v
DictSet(d, k, v) == DictUpdate(d, << <<k, v>> >>)

(***************************************************************************)
(* template.py: FieldBlock.generate_bubble_grid and Template               *)
(***************************************************************************)
field_types ==
    [QTYPE_INT  |-> [bubble_values |-> <<"0", "1", "2", "3", "4", "5", "6", "7", "8", "9">>,
                     direction |-> "vertical"],
     QTYPE_MCQ4 |-> [bubble_values |-> <<"A", "B", "C", "D">>,
                     direction |-> "horizontal"],
     QTYPE_MCQ5 |-> [bubble_values |-> <<"A", "B", "C", "D", "E">>,
                     direction |-> "horizontal"]]

SupportedFieldTypes == DOMAIN field_types

\* traverse_bubbles of a block of a supported field type.  Axes are 1-based
\* here: Python's (_h, _v) = (1, 0) for vertical and (0, 1) otherwise.  When
\* the bubble of question k (of the outer loop) and value b (of the inner
\* loop) is appended, lead_point has been advanced k - 1 times by labels_gap
\* along _v and bubble_point b - 1 times by bubbles_gap along _h.
generate_bubble_grid(field_type, origin, bubbles_gap, labels_gap, field_labels) ==
    LET config == field_types[field_type]
        _h == IF config.direction = "vertical" THEN 2 ELSE 1
        _v == IF config.direction = "vertical" THEN 1 ELSE 2
        bubble_point(k, b) ==
            [axis \in 1..2 |-> origin[axis]
                               + (IF axis = _v THEN (k - 1) * labels_gap ELSE 0)
                               + (IF axis = _h THEN (b - 1) * bubbles_gap ELSE 0)]
    IN  [k \in 1..Len(field_labels) |->
            [b \in 1..Len(config.bubble_values) |->
                [x |-> bubble_point(k, b)[1], y |-> bubble_point(k, b)[2],
                 field_label |-> field_labels[k],
                 field_value |-> config.bubble_values[b]]]]

\* FieldBlock(...) as built by Template.setup_field_blocks from one entry of
\* the configuration's fieldBlocks.
FieldBlock(block_name, block_config, empty_value) ==
    [name        |-> block_name,
     field_type  |-> block_config.fieldType,
     origin      |-> block_config.origin,
     bubbles_gap |-> block_config.bubblesGap,
     labels_gap  |-> block_config.labelsGap,
     field_labels |-> block_config.fieldLabels,
     empty_value |-> empty_value,
     shift       |-> 0,
     traverse_bubbles |->
         generate_bubble_grid(block_config.fieldType, block_config.origin,
                              block_config.bubblesGap, block_config.labelsGap,
                              block_config.fieldLabels)]

\* "q" followed by the number: f"q{j}".
Label(j) == "q" \o ToString(j)

\* [f"q{j}" for j in range(first, first + n)]
LabelsFrom(first, n) == [k \in 1..n |-> Label(first + k - 1)]

\* A template file that does not exist, and one that is not JSON or lacks a
\* required key.
FileNotFound == [file_not_found |-> TRUE]
MalformedConfig == [malformed |-> TRUE]

\* The configuration create_default_template writes.
default_config ==
    [pageDimensions |-> <<666, 820>>, bubbleDimensions |-> <<20, 20>>,
     emptyValue |-> <<>>,
     fieldBlocks |-> << <<"Questions",
                          [fieldType |-> "QTYPE_MCQ4", origin |-> <<50, 100>>,
                           bubblesGap |-> 50, labelsGap |-> 60,
                           fieldLabels |-> LabelsFrom(1, 20)]>> >>,
     preProcessors |-> <<"CropPage">>]

\* Template(path, tuning): load_template_config (a missing file is replaced
\* by the default configuration) then setup_field_blocks.  Raises when the
\* configuration cannot be read or a block has an unsupported fieldType.
\* fieldBlocks is the JSON object as a dict name -> block; preProcessors is
\* the list of the entries' names ("" for an entry without a name).
TemplateCtor(file) ==
    LET config == IF file = FileNotFound THEN default_config ELSE file
    IN  IF config = MalformedConfig THEN Raise
        ELSE IF \E i \in 1..Len(config.fieldBlocks) :
                    config.fieldBlocks[i][2].fieldType \notin SupportedFieldTypes
        THEN Raise
        ELSE [page_dimensions   |-> config.pageDimensions,
              bubble_dimensions |-> config.bubbleDimensions,
              empty_value       |-> config.emptyValue,
              field_blocks      |-> [i \in 1..Len(config.fieldBlocks) |->
                                        FieldBlock(config.fieldBlocks[i][1],
                                                   config.fieldBlocks[i][2],
                                                   config.emptyValue)],
              preprocessors_config |-> config.preProcessors]

validate_template(t) ==
    /\ Len(t.page_dimensions) = 2
    /\ Len(t.bubble_dimensions) = 2
    /\ Len(t.field_blocks) > 0
    /\ \A i \in 1..Len(t.field_blocks) :
          /\ Len(t.field_blocks[i].traverse_bubbles) > 0
          /\ \A j \in 1..Len(t.field_blocks[i].traverse_bubbles) :
                Len(t.field_blocks[i].traverse_bubbles[j]) > 0

\* The dict comprehension of to_dict over field_blocks from block i on: one
\* entry per block name, a later block of the same name replacing the value.
RECURSIVE BlocksDict(_, _, _)
BlocksDict(field_blocks, i, d) ==
    IF i > Len(field_blocks) THEN d
    ELSE BlocksDict(field_blocks, i + 1,
                    DictSet(d, field_blocks[i].name,
                            [fieldType |-> field_blocks[i].field_type,
                             origin |-> field_blocks[i].origin,
                             bubblesGap |-> field_blocks[i].bubbles_gap,
                             labelsGap |-> field_blocks[i].labels_gap,
                             fieldLabels |-> field_blocks[i].field_labels]))

\* to_dict with the two gaps of every block written under each other's key.
to_dict_gaps_swapped(t) ==
    LET d == BlocksDict(t.field_blocks, 1, <<>>)
    IN  [pageDimensions |-> t.page_dimensions,
         bubbleDimensions |-> t.bubble_dimensions,
         emptyValue |-> t.empty_value,
         fieldBlocks |-> [i \in 1..Len(d) |->
                             <<d[i][1], [d[i][2] EXCEPT !.bubblesGap = d[i][2].labelsGap,
                                                        !.labelsGap = d[i][2].bubblesGap]>>],
         preProcessors |-> t.preprocessors_config]

\* to_dict: the configuration form of a template.  save_template writes it
\* as JSON, and a JSON document read back is the same dict of the same
\* integers, strings and lists in the same order.
to_dict(t) ==
    [pageDimensions |-> t.page_dimensions,
     bubbleDimensions |-> t.bubble_dimensions,
     emptyValue |-> t.empty_value,
     fieldBlocks |-> BlocksDict(t.field_blocks, 1, <<>>),
     preProcessors |-> t.preprocessors_config]

\* Every question label a template declares, block by block.
TemplateLabels(t) ==
    Flatten([i \in 1..Len(t.field_blocks) |-> t.field_blocks[i].field_labels])

(***************************************************************************)
(* bubble_detection.py: BubbleDetector                                     *)
(***************************************************************************)
MIN_GAP == 30
MIN_JUMP == 25
CONFIDENT_SURPLUS == 5
GLOBAL_DEFAULT_WHITE == 200
GLOBAL_DEFAULT_OTHER == 100

\* A detector that takes every page for a white one.
DefaultThresholdAlwaysWhite(page_type) == GLOBAL_DEFAULT_WHITE

\* 200 if self.page_type == "white" else 100
DefaultThresholdFor(page_type) ==
    IF page_type = "white" THEN GLOBAL_DEFAULT_WHITE ELSE GLOBAL_DEFAULT_OTHER

\* self.global_default_threshold for the configured page type "white".
global_default_threshold == DefaultThresholdFor("white")

\* sorted(q_vals): position k holds the value with fewer than k values below
\* it and at least k values not above it.
Sorted(s) ==
    [k \in 1..Len(s) |->
        CHOOSE v \in Range(s) :
            /\ Cardinality({i \in 1..Len(s) : s[i] < v}) < k
            /\ k <= Cardinality({i \in 1..Len(s) : s[i] <= v})]

SeqMax(s) == CHOOSE m \in Range(s) : \A v \in Range(s) : v <= m
SeqMin(s) == CHOOSE m \in Range(s) : \A v \in Range(s) : m <= v

\* The gap scan "for i in range(1, l)" and what it leaves in max1 and thr1.  q
\* is 1-based here, so i runs over 2 .. Len(q) - 1 and the pair is q[i + 1],
\* q[i - 1].  max1 is replaced only by a strictly larger jump, so the scan
\* ends on the first of the largest jumps, if one is above min_jump.
ScanJumps(q, min_jump, thr_init) ==
    LET jump(i) == q[i + 1] - q[i - 1]
        above == {i \in 2..(Len(q) - 1) : jump(i) > min_jump}
        kept == CHOOSE i \in above :
                    \A k \in above : jump(k) < jump(i) \/ (jump(k) = jump(i) /\ i <= k)
    IN  IF above = {} THEN [max1 |-> min_jump, thr1 |-> thr_init]
        ELSE [max1 |-> jump(kept), thr1 |-> q[kept - 1] + jump(kept) \div 2]

\* get_local_threshold under given threshold parameters.  With no value
\* np.max raises, and the except clause returns global_thr.
get_local_threshold_in(q_vals, global_thr, min_gap, min_jump, confident_surplus) ==
    IF Len(q_vals) = 0 THEN global_thr
    ELSE IF Len(q_vals) < 3
         THEN IF SeqMax(q_vals) - SeqMin(q_vals) < min_gap
              THEN global_thr
              ELSE SumSeq(q_vals) \div Len(q_vals)
    ELSE LET scan == ScanJumps(Sorted(q_vals), min_jump, 255)
             confident_jump == min_jump + confident_surplus
         IN  IF scan.max1 < confident_jump THEN global_thr ELSE scan.thr1

\* get_local_threshold of a detector with the default threshold parameters.
get_local_threshold(q_vals, global_thr) ==
    get_local_threshold_in(q_vals, global_thr, MIN_GAP, MIN_JUMP, CONFIDENT_SURPLUS)

\* The gap scan of get_global_threshold keeping the last of the largest jumps.
GlobalScanLast(q, min_jump) ==
    LET jump(i) == (q[i + 1] - q[i - 1]) % 256
        above == {i \in 2..(Len(q) - 1) : jump(i) > min_jump}
        kept == CHOOSE i \in above :
                    \A k \in above : jump(k) < jump(i) \/ (jump(k) = jump(i) /\ k <= i)
    IN  IF above = {} THEN [found |-> FALSE, max1 |-> min_jump, low |-> 0]
        ELSE [found |-> TRUE, max1 |-> jump(kept), low |-> q[kept - 1]]

\* The gap scan of get_global_threshold over the sorted pixels, which are
\* numpy uint8 scalars: the difference of two of them is taken modulo 256.
\* "low" is q_vals[i - 1] of the jump kept.
GlobalScan(q, min_jump) ==
    LET jump(i) == (q[i + 1] - q[i - 1]) % 256
        above == {i \in 2..(Len(q) - 1) : jump(i) > min_jump}
        kept == CHOOSE i \in above :
                    \A k \in above : jump(k) < jump(i) \/ (jump(k) = jump(i) /\ i <= k)
    IN  IF above = {} THEN [found |-> FALSE, max1 |-> min_jump, low |-> 0]
        ELSE [found |-> TRUE, max1 |-> jump(kept), low |-> q[kept - 1]]

\* get_global_threshold(image) of a detector with the given parameters;
\* gamma_low is given in tenths.  thr1 = q_vals[i - 1] + jump / 2 is a float
\* and max1 // 2 a floor, so the three values are exact in twentieths:
\* each is returned as <<numerator, 20>>.
get_global_threshold(q_vals_orig, min_jump, gamma_low, default_threshold) ==
    LET scan == GlobalScan(Sorted(q_vals_orig), min_jump)
        thr1 == IF scan.found THEN 2 * scan.low + scan.max1 ELSE 2 * default_threshold
        thr_low == thr1 - 2 * (scan.max1 \div 2)
        thr_high == thr1 + 2 * (scan.max1 \div 2)
        factor == IF gamma_low < 10 THEN gamma_low ELSE 10
    IN  [thr1 |-> <<thr1 * factor, 20>>,
         thr_low |-> <<thr_low * factor, 20>>,
         thr_high |-> <<thr_high * factor, 20>>]

\* "Ensure coordinates are within image bounds": rect = [y, y + box_h, x, x + box_w]
\* against image.shape = (rows, columns).
RectInImage(bubble, shift, bubble_dimensions, shape) ==
    LET x == bubble.x + shift
        y == bubble.y
        rect == <<y, y + bubble_dimensions[2], x, x + bubble_dimensions[1]>>
    IN  /\ rect[1] >= 0 /\ rect[2] <= shape[1]
        /\ rect[3] >= 0 /\ rect[4] <= shape[2]

\* cv2.mean(image[rect])[0]: a grey image is its shape and the mean of every
\* bubble rectangle inside it, keyed by the rectangle's top-left corner.
bubble_intensity(gray, bubble, shift) == gray.mean[<<bubble.x + shift, bubble.y>>]

\* The comparison with the boundary on the other side: a bubble exactly as
\* dark as the threshold counts as marked.
bubble_is_marked_inclusive(local_thr, intensity) == local_thr >= intensity

\* bubble_is_marked = local_thr > bubble_intensity
bubble_is_marked(local_thr, intensity) == local_thr > intensity

\* A sampling that gives an out-of-bounds bubble the neutral intensity 255
\* instead of skipping it.
BlockIntensitiesWithSentinel(field_block, gray, bubble_dimensions) ==
    LET row(fb) ==
            [k \in 1..Len(fb) |->
                IF RectInImage(fb[k], field_block.shift, bubble_dimensions, gray.shape)
                THEN gray.mean[<<fb[k].x + field_block.shift, fb[k].y>>]
                ELSE 255]
    IN  Flatten([j \in 1..Len(field_block.traverse_bubbles) |->
                    row(field_block.traverse_bubbles[j])])

\* all_intensities of a block: the in-bounds bubbles in traversal order.
BlockIntensities(field_block, gray, bubble_dimensions) ==
    LET InB(b) == RectInImage(b, field_block.shift, bubble_dimensions, gray.shape)
        row(fb) == LET kept == SelectSeq(fb, InB)
                   IN  [k \in 1..Len(kept) |-> bubble_intensity(gray, kept[k], field_block.shift)]
    IN  Flatten([j \in 1..Len(field_block.traverse_bubbles) |->
                    row(field_block.traverse_bubbles[j])])

\* detected_bubbles of one question.
DetectedBubbles(field_bubbles, field_block, gray, local_thr, bubble_dimensions) ==
    LET Hit(b) == /\ RectInImage(b, field_block.shift, bubble_dimensions, gray.shape)
                  /\ bubble_is_marked(local_thr,
                                      bubble_intensity(gray, b, field_block.shift))
    IN  SelectSeq(field_bubbles, Hit)

\* ''.join([b.field_value for b in detected_bubbles])
JoinValues(detected_bubbles) ==
    [k \in 1..Len(detected_bubbles) |-> detected_bubbles[k].field_value]

\* A detector that keeps only the first marked bubble of a question.
QuestionResponseFirstOnly(detected_bubbles, empty_value) ==
    IF Len(detected_bubbles) >= 1 THEN <<detected_bubbles[1].field_value>>
    ELSE empty_value

\* "Handle detection results" for one question.
QuestionResponse(detected_bubbles, empty_value) ==
    IF Len(detected_bubbles) > 1 THEN JoinValues(detected_bubbles)
    ELSE IF Len(detected_bubbles) = 1 THEN <<detected_bubbles[1].field_value>>
    ELSE empty_value

\* What the loop has appended to multi_marked (several = TRUE: the questions
\* with more than one detected bubble) or to marked (several = FALSE: those
\* with exactly one), in traversal order.
LabelsWhere(field_block, detected, several) ==
    LET Appended(j) == IF several THEN Len(detected[j]) > 1 ELSE Len(detected[j]) = 1
        js == SelectSeq([j \in 1..Len(detected) |-> j], Appended)
    IN  [k \in 1..Len(js) |-> field_block.traverse_bubbles[js[k]][1].field_label]

\* The "Process each question" loop of process_field_block under the block's
\* local threshold, and what it returns.  The result is the returned tuple
\* with two locals kept for the properties: local_thr and the
\* detected_bubbles of each question.
ProcessBlockWith(field_block, gray, local_thr, bubble_dimensions) ==
    LET detected == [j \in 1..Len(field_block.traverse_bubbles) |->
                        DetectedBubbles(field_block.traverse_bubbles[j], field_block,
                                        gray, local_thr, bubble_dimensions)]
    IN  [field_response |->
             DictUpdate(<<>>, [j \in 1..Len(detected) |->
                                  <<field_block.traverse_bubbles[j][1].field_label,
                                    QuestionResponse(detected[j], field_block.empty_value)>>]),
         marked |-> LabelsWhere(field_block, detected, FALSE),
         multi_marked |-> LabelsWhere(field_block, detected, TRUE),
         multi_roll |-> <<>>,
         local_thr |-> local_thr,
         detected |-> detected,
         failed |-> FALSE]

\* The except clause of process_field_block: return {}, [], [], [].
FailedBlock ==
    [field_response |-> <<>>, marked |-> <<>>, multi_marked |-> <<>>, multi_roll |-> <<>>,
     local_thr |-> None, detected |-> <<>>, failed |-> TRUE]

\* process_field_block: all_intensities, the local threshold, the questions.
\* "box_w, box_h = bubble_dimensions" raises unless there are exactly two
\* dimensions, and the except clause returns the empty tuple.
process_field_block(field_block, gray, global_thr, bubble_dimensions) ==
    IF Len(bubble_dimensions) # 2 THEN FailedBlock
    ELSE ProcessBlockWith(field_block, gray,
                          get_local_threshold(
                              BlockIntensities(field_block, gray, bubble_dimensions),
                              global_thr),
                          bubble_dimensions)

\* One pass of the "Process each field block" loop: omr_response.update and
\* the three extends, with the block result r.
BlockStep(acc, r) ==
    [omr_response |-> DictUpdate(acc.omr_response, r.field_response),
     final_marked |-> acc.final_marked \o r.marked,
     multi_marked |-> acc.multi_marked \o r.multi_marked,
     multi_roll   |-> acc.multi_roll \o r.multi_roll,
     global_threshold |-> acc.global_threshold,
     blocks |-> Append(acc.blocks, [local_thr |-> r.local_thr, detected |-> r.detected,
                                    failed |-> r.failed])]

\* The "Process each field block" loop of detect_bubbles, from block i on.
RECURSIVE BlockLoop(_, _, _, _, _)
BlockLoop(t, gray, global_thr, i, acc) ==
    IF i > Len(t.field_blocks) THEN acc
    ELSE BlockLoop(t, gray, global_thr, i + 1,
             BlockStep(acc, process_field_block(t.field_blocks[i], gray, global_thr,
                                                t.bubble_dimensions)))

\* detect_bubble_with_confidence(image, bubble, bubble_dimensions, threshold):
\* the BubbleDetectionResult.  confidence is the fraction <<numerator, 255>>,
\* at most 1.
detect_bubble_with_confidence(gray, bubble, bubble_dimensions, threshold) ==
    IF Len(bubble_dimensions) = 2 /\ RectInImage(bubble, 0, bubble_dimensions, gray.shape)
    THEN LET intensity == bubble_intensity(gray, bubble, 0)
             distance == IF intensity >= threshold THEN intensity - threshold
                         ELSE threshold - intensity
         IN  [is_marked |-> threshold > intensity,
              confidence |-> IF distance > 255 THEN <<255, 255>> ELSE <<distance, 255>>,
              intensity |-> intensity,
              threshold_used |-> threshold,
              bubble |-> bubble]
    ELSE [is_marked |-> FALSE, confidence |-> <<0, 255>>, intensity |-> 255,
          threshold_used |-> threshold, bubble |-> bubble]

\* An image cv2.resize cannot take (None, an empty array).
BadImage == [bad |-> TRUE]

\* detect_bubbles(image, template).  An image is given by what detection reads
\* of it once resized to the page dimensions, normalised and made grey: the
\* mean of each bubble rectangle (image.mean) and the global threshold its
\* pixel distribution yields (image.global_thr).  "blocks" keeps the locals
\* of each process_field_block call; it is not part of the returned dict.
\* default_threshold is the detector's self.global_default_threshold.
DetectWith(image, t, default_threshold) ==
    IF image = BadImage
    THEN [omr_response |-> <<>>, final_marked |-> <<>>, multi_marked |-> <<>>,
          multi_roll |-> <<>>, global_threshold |-> default_threshold,
          blocks |-> <<>>]
    ELSE BlockLoop(t, [shape |-> <<t.page_dimensions[2], t.page_dimensions[1]>>,
                       mean |-> image.mean],
                   image.global_thr, 1,
                   [omr_response |-> <<>>, final_marked |-> <<>>, multi_marked |-> <<>>,
                    multi_roll |-> <<>>, global_threshold |-> image.global_thr,
                    blocks |-> <<>>])

\* detect_bubbles of the detector OMRCore builds (page type "white").
detect_bubbles(image, t) == DetectWith(image, t, global_default_threshold)

(***************************************************************************)
(* evaluation.py: AnswerKeyManager and OMREvaluator                        *)
(***************************************************************************)
\* AnswerKeyManager.get_answer: self.answer_key.get(question, "")
get_answer(answer_key, question) == DictGet(answer_key, question, <<>>)

\* The chain with its first two tests exchanged: emptiness before equality.
VerdictUnmarkedFirst(student_answer, correct_answer) ==
    IF student_answer = <<>> THEN "unmarked"
    ELSE IF student_answer = correct_answer THEN "correct"
    ELSE IF Len(student_answer) > 1 THEN "multi_marked"
    ELSE "incorrect"

\* "Determine verdict and score": the if / elif chain of evaluate_omr_response.
Verdict(student_answer, correct_answer) ==
    IF student_answer = correct_answer THEN "correct"
    ELSE IF student_answer = <<>> THEN "unmarked"
    ELSE IF Len(student_answer) > 1 THEN "multi_marked"
    ELSE "incorrect"

\* A scoring that charges a multi-marked question the scheme's incorrect points.
VerdictScoreMultiAsIncorrect(verdict, marking_scheme) ==
    CASE verdict = "correct"      -> marking_scheme.correct
      [] verdict = "unmarked"     -> marking_scheme.unmarked
      [] verdict = "multi_marked" -> marking_scheme.incorrect
      [] verdict = "incorrect"    -> marking_scheme.incorrect

\* float(marking_scheme[...]) of the verdict; 0.0 for multi_marked.
VerdictScore(verdict, marking_scheme) ==
    CASE verdict = "correct"      -> marking_scheme.correct
      [] verdict = "unmarked"     -> marking_scheme.unmarked
      [] verdict = "multi_marked" -> 0
      [] verdict = "incorrect"    -> marking_scheme.incorrect

EvaluationResult(question, student_answer, correct_answer, verdict, marking_scheme) ==
    [question |-> question, student_answer |-> student_answer,
     correct_answer |-> correct_answer, verdict |-> verdict,
     score |-> VerdictScore(verdict, marking_scheme)]

\* One pass of the "Evaluate each question" loop.
EvaluateQuestion(question, student_answer, answer_key, marking_scheme) ==
    EvaluationResult(question, student_answer, get_answer(answer_key, question),
                     Verdict(student_answer, get_answer(answer_key, question)),
                     marking_scheme)

CountVerdict(evaluation_results, verdict) ==
    Cardinality({i \in 1..Len(evaluation_results) : evaluation_results[i].verdict = verdict})

\* The report of the except clause of evaluate_omr_response.
ErrorReport ==
    [total_score |-> 0, max_possible_score |-> 0, percentage |-> <<0, 1>>,
     correct_answers |-> 0, incorrect_answers |-> 0, unmarked_answers |-> 0,
     multi_marked_answers |-> 0, evaluation_results |-> <<>>, subject_scores |-> <<>>]

\* A marking_schemes dict without "DEFAULT": get_marking_scheme raises KeyError.
NoDefaultScheme == [no_default |-> TRUE]

\* A report whose percentage is the plain ratio total / max, not scaled by 100.
ScoringReportUnscaled(evaluation_results, total_score, max_possible_score) ==
    [total_score |-> total_score,
     max_possible_score |-> max_possible_score,
     percentage |-> IF max_possible_score > 0
                    THEN <<total_score, max_possible_score>>
                    ELSE <<0, 1>>,
     correct_answers |-> Cardinality({i \in 1..Len(evaluation_results) :
                                         evaluation_results[i].verdict = "correct"}),
     incorrect_answers |-> Cardinality({i \in 1..Len(evaluation_results) :
                                           evaluation_results[i].verdict = "incorrect"}),
     unmarked_answers |-> Cardinality({i \in 1..Len(evaluation_results) :
                                          evaluation_results[i].verdict = "unmarked"}),
     multi_marked_answers |-> Cardinality({i \in 1..Len(evaluation_results) :
                                              evaluation_results[i].verdict = "multi_marked"}),
     evaluation_results |-> evaluation_results,
     subject_scores |-> << <<"Total", total_score>> >>]

\* The ScoringReport of the try block.  percentage is the fraction
\* <<numerator, denominator>>; subject_scores is calculate_subject_scores.
ScoringReport(evaluation_results, total_score, max_possible_score) ==
    [total_score |-> total_score,
     max_possible_score |-> max_possible_score,
     percentage |-> IF max_possible_score > 0
                    THEN <<total_score * 100, max_possible_score>>
                    ELSE <<0, 1>>,
     correct_answers |-> CountVerdict(evaluation_results, "correct"),
     incorrect_answers |-> CountVerdict(evaluation_results, "incorrect"),
     unmarked_answers |-> CountVerdict(evaluation_results, "unmarked"),
     multi_marked_answers |-> CountVerdict(evaluation_results, "multi_marked"),
     evaluation_results |-> evaluation_results,
     subject_scores |-> << <<"Total", total_score>> >>]

ReportOf(evaluation_results, marking_scheme) ==
    ScoringReport(evaluation_results,
                  SumSeq([i \in 1..Len(evaluation_results) |-> evaluation_results[i].score]),
                  Len(evaluation_results) * marking_scheme.correct)

\* evaluate_omr_response(omr_response)
evaluate_omr_response(omr_response, ev) ==
    IF ev.marking_scheme = NoDefaultScheme THEN ErrorReport
    ELSE ReportOf([i \in 1..Len(omr_response) |->
                      EvaluateQuestion(omr_response[i][1], omr_response[i][2],
                                       ev.answer_key, ev.marking_scheme)],
                  ev.marking_scheme)

(***************************************************************************)
(* processors.py: ImageProcessorFactory                                    *)
(***************************************************************************)
PROCESSORS == {"CropPage", "CropOnMarkers", "Levels", "GaussianBlur"}

\* create_processors_from_config: an entry without a name is skipped, an
\* unknown name makes create_processor raise ValueError.
create_processors_from_config(config) ==
    IF \E i \in 1..Len(config) : config[i] # "" /\ config[i] \notin PROCESSORS
    THEN [raised |-> TRUE, processors |-> <<>>]
    ELSE [raised |-> FALSE, processors |-> SelectSeq(config, LAMBDA n : n # "")]

(***************************************************************************)
(* processors.py: the preprocessing steps                                  *)
(***************************************************************************)
\* Pixels are not modelled: an image is known by what it was read from and by
\* the operations applied to it since, in order ("ops").  An image nothing
\* was applied to has no "ops" field.
History(image) == IF "ops" \in DOMAIN image THEN image.ops ELSE <<>>

Transformed(image, operation) == ("ops" :> Append(History(image), operation)) @@ image

\* The options the step classes read, by what they decide: Levels skips the
\* gamma correction when gamma == 1.0 and the scaling when alpha == 1.0 and
\* beta == 0; CropOnMarkers returns at once unless markerPath names a file.
NoOptions == [gamma_set |-> FALSE, scale_set |-> FALSE, marker_path_exists |-> FALSE]

\* create_processor(name, options): the step object.
create_processor(processor_name, options) == [name |-> processor_name, options |-> options]

\* What a step meets when it runs: "fault" is the stage of apply_filter at
\* which a library call raises (0: none), "page" whether one of the five
\* largest contours is a large enough rectangle, "markers" how the marker
\* matching fares.
NoFault == [fault |-> 0, page |-> TRUE, markers |-> "matched"]

\* The number of stages of each apply_filter that can raise separately.
Stages(processor_name) ==
    CASE processor_name = "CropPage" -> 2
      [] processor_name = "CropOnMarkers" -> 3
      [] processor_name = "Levels" -> 2
      [] processor_name = "GaussianBlur" -> 1

\* apply_filter returns an image; "error" tells whether its except clause ran.
Kept(image) == [image |-> image, error |-> FALSE]
Caught(image) == [image |-> image, error |-> TRUE]

\* CropPage.apply_filter: stage 1 finds the page contour, stage 2 is
\* _crop_and_align.  The parameter image is never rebound.
CropPage_apply_filter(image, env) ==
    IF image = BadImage \/ env.fault = 1 THEN Caught(image)
    ELSE IF ~env.page THEN Kept(image)
    ELSE IF env.fault = 2 THEN Caught(image)
    ELSE Kept(Transformed(image, "CropPage"))

\* CropOnMarkers.apply_filter: stage 1 reads the marker and finds its scale,
\* stage 2 matches it in the four quadrants, stage 3 is
\* _apply_perspective_transform.  The parameter image is never rebound.
CropOnMarkers_apply_filter(options, image, env) ==
    IF ~options.marker_path_exists THEN Kept(image)
    ELSE IF env.fault = 1 THEN Caught(image)
    ELSE IF env.markers = "unreadable" THEN Kept(image)
    ELSE IF image = BadImage THEN Caught(image)
    ELSE IF env.markers = "no_scale" THEN Kept(image)
    ELSE IF env.fault = 2 THEN Caught(image)
    ELSE IF env.markers = "low_confidence" THEN Kept(image)
    ELSE IF env.fault = 3 THEN Caught(image)
    ELSE Kept(Transformed(image, "CropOnMarkers"))

\* The brightness and contrast half of Levels.apply_filter, on the image the
\* name `image` is bound to when it is reached.
LevelsScale(options, image, env) ==
    IF ~options.scale_set THEN Kept(image)
    ELSE IF image = BadImage \/ env.fault = 2 THEN Caught(image)
    ELSE Kept(Transformed(image, "convertScaleAbs"))

\* Levels.apply_filter: stage 1 is the gamma correction, whose result is
\* assigned to the parameter `image` itself, stage 2 the scaling.  The
\* except clause returns whatever `image` is bound to then.
Levels_apply_filter(options, image, env) ==
    IF ~options.gamma_set THEN LevelsScale(options, image, env)
    ELSE IF image = BadImage \/ env.fault = 1 THEN Caught(image)
    ELSE LevelsScale(options, Transformed(image, "gamma"), env)

\* GaussianBlur.apply_filter: one call.
GaussianBlur_apply_filter(image, env) ==
    IF image = BadImage \/ env.fault = 1 THEN Caught(image)
    ELSE Kept(Transformed(image, "GaussianBlur"))

apply_filter(processor, image, env) ==
    CASE processor.name = "CropPage" -> CropPage_apply_filter(image, env)
      [] processor.name = "CropOnMarkers" ->
             CropOnMarkers_apply_filter(processor.options, image, env)
      [] processor.name = "Levels" -> Levels_apply_filter(processor.options, image, env)
      [] processor.name = "GaussianBlur" -> GaussianBlur_apply_filter(image, env)

\* The "Apply each preprocessor" loop from step i on; envs[i] is what step i
\* meets.
RECURSIVE ApplyEach(_, _, _, _)
ApplyEach(image, preprocessors, envs, i) ==
    IF i > Len(preprocessors) THEN image
    ELSE ApplyEach(apply_filter(preprocessors[i], image, envs[i]).image,
                   preprocessors, envs, i + 1)

\* The steps taken in the reverse of list order.
apply_preprocessors_reversed(image, preprocessors, envs) ==
    IF image = BadImage THEN image
    ELSE LET n == Len(preprocessors)
         IN  ApplyEach(Transformed(image, "resize"),
                       [i \in 1..n |-> preprocessors[n + 1 - i]],
                       [i \in 1..n |-> envs[n + 1 - i]], 1)

\* ImageInstanceOps.apply_preprocessors: resize to the processing dimensions,
\* then every step in list order.  cv2.resize raises on an image it cannot
\* take, and the except clause returns the image as it came.
apply_preprocessors(image, preprocessors, envs) ==
    IF image = BadImage THEN image
    ELSE ApplyEach(Transformed(image, "resize"), preprocessors, envs, 1)

(***************************************************************************)
(* core.py: OMRCore                                                        *)
(***************************************************************************)
\* load_template: what self.template is afterwards, and the value returned.
\* The field is assigned before validation, and kept when the constructor
\* raises.
LoadOutcome(cur_template, t) ==
    IF t = Raise THEN [template |-> cur_template, ret |-> FALSE]
    ELSE [template |-> t, ret |-> validate_template(t)]

load_template(cur_template, file) == LoadOutcome(cur_template, TemplateCtor(file))

\* The "Create field blocks for each subject" loop; i is 1-based, so
\* Python's i is i - 1 and its f"Subject_{i+1}" is "Subject_" i.
RECURSIVE SubjectBlocks(_, _, _, _)
SubjectBlocks(test_subjects, i, current_question, fieldBlocks) ==
    IF i > Len(test_subjects) THEN fieldBlocks
    ELSE LET subject == test_subjects[i]
             subject_name == IF "name" \in DOMAIN subject THEN subject.name
                             ELSE "Subject_" \o ToString(i)
             subject_questions == subject.questions
             origin_y == 100 + ((i - 1) * subject_questions * 60)
         IN  IF subject_questions > 0
             THEN SubjectBlocks(test_subjects, i + 1, current_question + subject_questions,
                      DictSet(fieldBlocks, subject_name,
                              [fieldType |-> "QTYPE_MCQ4", origin |-> <<50, origin_y>>,
                               bubblesGap |-> 50, labelsGap |-> 60,
                               fieldLabels |-> LabelsFrom(current_question,
                                                          subject_questions)]))
             ELSE SubjectBlocks(test_subjects, i + 1, current_question, fieldBlocks)

\* The template_config create_template_from_test_data writes to
\* templates/generated_template.json.
generated_config(test_subjects) ==
    [pageDimensions |-> <<666, 820>>, bubbleDimensions |-> <<20, 20>>,
     emptyValue |-> <<>>,
     fieldBlocks |-> SubjectBlocks(test_subjects, 1, 1, <<>>),
     preProcessors |-> <<"CropPage">>]

create_template_from_test_data(cur_template, test_subjects) ==
    load_template(cur_template, generated_config(test_subjects))

\* The marking scheme "DEFAULT" of EvaluationConfig.create_default_config.
DefaultScheme == [correct |-> 1, incorrect |-> 0, unmarked |-> 0]

\* EvaluationConfig.create_from_test_data: the answers dict, subject by
\* subject; "A" where a subject's own answer_key is too short.
RECURSIVE SubjectAnswers(_, _, _, _)
SubjectAnswers(test_subjects, s, question_num, answers) ==
    IF s > Len(test_subjects) THEN answers
    ELSE LET subject == test_subjects[s]
             n == IF subject.questions > 0 THEN subject.questions ELSE 0
             own == [i \in 1..n |->
                        <<Label(question_num + i - 1),
                          IF i <= Len(subject.answer_key) THEN subject.answer_key[i]
                          ELSE <<"A">> >>]
         IN  SubjectAnswers(test_subjects, s + 1, question_num + n,
                            DictUpdate(answers, own))

\* len(subject_answer_key) raises TypeError when a subject with questions has
\* an answer_key that is no list.
AnswersRaise(test_subjects) ==
    \E s \in 1..Len(test_subjects) :
        test_subjects[s].questions > 0 /\ ~test_subjects[s].answer_key_is_list

\* setup_evaluator: what self.evaluator is afterwards.  The evaluator is its
\* answer key and the marking scheme get_marking_scheme() returns.
setup_evaluator(cur_evaluator, test_subjects, answer_key) ==
    IF Len(test_subjects) > 0 /\ Len(answer_key) > 0
    THEN IF AnswersRaise(test_subjects) THEN cur_evaluator
         ELSE [answer_key |-> SubjectAnswers(test_subjects, 1, 1, <<>>),
               marking_scheme |-> DefaultScheme]
    ELSE [answer_key |-> <<>>, marking_scheme |-> DefaultScheme]

\* The failed result of the except clause of process_omr_image and
\* process_omr_file.  "stages" lists the pipeline stages the call ran.
FailedResult(error) ==
    [success |-> FALSE, error |-> error, processing_time_ms |-> 0,
     omr_response |-> <<>>, scoring_report |-> None, stages |-> <<>>]

\* visualize_detection returns an annotated copy, or the image itself when
\* it cannot draw on it (no image to copy, or "w, h = template.bubble_dimensions"
\* raising).
visualize_detection(image, t) ==
    IF image = BadImage \/ Len(t.bubble_dimensions) # 2 THEN image
    ELSE [annotated |-> image]

\* "Compile results": the dict of a call that ran the four stages, with the
\* steps applied, the stages run (each with the argument it was called on)
\* and the detector's locals kept beside it.
CompileResults(t, ev, image, preprocessors, processed_image, detection_results) ==
    [success |-> TRUE,
     omr_response |-> detection_results.omr_response,
     scoring_report |-> evaluate_omr_response(detection_results.omr_response, ev),
     detection_metadata |->
         [global_threshold |-> detection_results.global_threshold,
          final_marked |-> detection_results.final_marked,
          multi_marked |-> detection_results.multi_marked,
          multi_roll |-> detection_results.multi_roll],
     visualization |-> visualize_detection(processed_image, t),
     template_info |->
         [page_dimensions |-> t.page_dimensions,
          bubble_dimensions |-> t.bubble_dimensions,
          field_blocks |-> Len(t.field_blocks)],
     blocks |-> detection_results.blocks,
     steps |-> preprocessors,
     stages |-> <<"preprocess", "detect", "evaluate", "visualize">>,
     calls |-> <<[stage |-> "preprocess", arg |-> image, out |-> processed_image],
                 [stage |-> "detect", arg |-> processed_image,
                  out |-> detection_results.omr_response],
                 [stage |-> "evaluate", arg |-> detection_results.omr_response],
                 [stage |-> "visualize", arg |-> processed_image]>>]

\* The step objects of a list of names without options.
StepObjects(names) == [i \in 1..Len(names) |-> create_processor(names[i], NoOptions)]

\* Steps 1 to 4 of process_omr_image; envs[i] is what step i of the list
\* meets.
RunPipelineIn(t, ev, image, preprocessors, envs) ==
    IF preprocessors.raised THEN FailedResult("Unknown processor")
    ELSE LET processed_image ==
                 apply_preprocessors(image, StepObjects(preprocessors.processors), envs)
         IN  CompileResults(t, ev, image, preprocessors.processors, processed_image,
                            detect_bubbles(processed_image, t))

\* The pipeline when no library call raises and the page is found.
RunPipeline(t, ev, image, preprocessors) ==
    RunPipelineIn(t, ev, image, preprocessors,
                  [i \in 1..Len(preprocessors.processors) |-> NoFault])

\* The two precondition tests in the other order.
process_omr_image_evaluator_first(t, ev, image) ==
    IF ev = None THEN FailedResult("No evaluator setup")
    ELSE IF t = None THEN FailedResult("No template loaded")
    ELSE RunPipeline(t, ev, image, create_processors_from_config(t.preprocessors_config))

\* process_omr_image(image), envs[i] being what step i meets: the
\* precondition tests, then the pipeline.  Every exception of the try block
\* ends in the failed result.
process_omr_image_in(t, ev, image, envs) ==
    IF t = None THEN FailedResult("No template loaded")
    ELSE IF ev = None THEN FailedResult("No evaluator setup")
    ELSE RunPipelineIn(t, ev, image, create_processors_from_config(t.preprocessors_config),
                       envs)

\* process_omr_image(image) when no library call raises and the page is found.
process_omr_image(t, ev, image) ==
    IF t = None THEN FailedResult("No template loaded")
    ELSE IF ev = None THEN FailedResult("No evaluator setup")
    ELSE RunPipeline(t, ev, image, create_processors_from_config(t.preprocessors_config))

\* A detector that keeps the global threshold of the image before and uses
\* it for the next one.
process_next_image_sticky(t, ev, previous, image) ==
    IF ~previous.success \/ image = BadImage THEN process_omr_image(t, ev, image)
    ELSE process_omr_image(t, ev, [image EXCEPT !.global_thr = previous.global_threshold])

\* process_omr_image(image) on a core whose previous call reported
\* previous.global_threshold: detect_bubbles assigns no attribute of the
\* detector, the core or the template, so nothing of the earlier call is read.
process_next_image(t, ev, previous, image) == process_omr_image(t, ev, image)

\* A file cv2.imread cannot decode: it returns None.
Unreadable == [unreadable |-> TRUE]

process_omr_file(t, ev, file) ==
    IF file.content = Unreadable THEN FailedResult("Could not load image")
    ELSE process_omr_image(t, ev, file.content)

\* Whether batch_process writes the visualization of a result.
WritesVisualization(output_dir, result) ==
    /\ output_dir # "None"
    /\ result.success
    /\ result.visualization # BadImage

\* The "Process each file" loop of batch_process at file i, whose result is
\* `result`.  Creating output_dir raises when it cannot be made (it names a
\* file, or is not writable), and nothing in the loop catches that.
RECURSIVE BatchLoop(_, _, _, _, _, _, _)
BatchLoop(t, ev, omr_files, output_dir, i, results, result) ==
    IF WritesVisualization(output_dir, result) /\ output_dir = "unwritable"
    THEN [raised |-> TRUE]
    ELSE IF i = Len(omr_files)
    THEN [raised |-> FALSE,
          results |-> Append(results, [file_name |-> omr_files[i].name, result |-> result])]
    ELSE BatchLoop(t, ev, omr_files, output_dir, i + 1,
                   Append(results, [file_name |-> omr_files[i].name, result |-> result]),
                   process_omr_file(t, ev, omr_files[i + 1]))

BatchOutcome(r) == IF r.raised THEN <<>> ELSE r.results

\* batch_process(input_dir, output_dir): omr_files are the image files found
\* in input_dir; output_dir is "None", "writable" or "unwritable".
batch_process(t, ev, input_exists, omr_files, output_dir) ==
    IF ~input_exists THEN <<>>
    ELSE IF omr_files = <<>> THEN <<>>
    ELSE BatchOutcome(BatchLoop(t, ev, omr_files, output_dir, 1, <<>>,
                                process_omr_file(t, ev, omr_files[1])))

(***************************************************************************)
(* Inputs                                                                  *)
(***************************************************************************)
\* Bounds of the input space.
MaxLabels == 2
MaxPoints == 1
MaxFiles == 2
MaxFullPositions == 8
MaxRequests == 2

McqBlock(origin, labels) ==
    [fieldType |-> "QTYPE_MCQ4", origin |-> origin, bubblesGap |-> 50,
     labelsGap |-> 60, fieldLabels |-> labels]

Config(blocks, empty_value, pre_processors) ==
    [pageDimensions |-> <<666, 820>>, bubbleDimensions |-> <<20, 20>>,
     emptyValue |-> empty_value, fieldBlocks |-> blocks,
     preProcessors |-> pre_processors]

\* One block of q1..qn.
SingleBlockConfigs ==
    {Config(<< <<"Questions", McqBlock(<<50, 100>>, LabelsFrom(1, n))>> >>,
            <<>>, <<"CropPage">>) : n \in 1..MaxLabels}

\* Two blocks of one question each, labels distinct.
TwoBlockConfig ==
    Config(<< <<"Math", McqBlock(<<50, 100>>, <<"q1">>)>>,
              <<"Physics", McqBlock(<<50, 160>>, <<"q2">>)>> >>,
           <<>>, <<"CropPage", "", "GaussianBlur">>)

\* Two blocks that declare the same label.
DuplicateLabelConfig ==
    Config(<< <<"Math", McqBlock(<<50, 100>>, <<"q1">>)>>,
              <<"Physics", McqBlock(<<50, 160>>, <<"q1">>)>> >>,
           <<>>, <<>>)

\* A block whose last two bubbles (x = 650, 700) leave the 666-wide page.
EdgeConfig ==
    Config(<< <<"Questions", McqBlock(<<550, 100>>, <<"q1">>)>> >>, <<>>, <<"Levels">>)

\* A block that lies wholly outside the page.
OffPageConfig ==
    Config(<< <<"Questions", McqBlock(<<700, 100>>, <<"q1">>)>> >>, <<>>, <<"CropPage">>)

\* bubbleDimensions with three entries: validation fails, and so does every
\* process_field_block call on the template.
TripleDimensionsConfig ==
    [Config(<< <<"Questions", McqBlock(<<50, 100>>, <<"q1">>)>> >>, <<>>, <<"CropPage">>)
        EXCEPT !.bubbleDimensions = <<20, 20, 3>>]

\* emptyValue "-".
SentinelConfig ==
    Config(<< <<"Questions", McqBlock(<<50, 100>>, <<"q1">>)>> >>, <<"-">>, <<"CropPage">>)

\* A preProcessors entry the factory does not know.
UnknownStepConfig ==
    Config(<< <<"Questions", McqBlock(<<50, 100>>, <<"q1">>)>> >>, <<>>,
           <<"CropPage", "Deskew">>)

DetectFiles ==
    SingleBlockConfigs \cup {TwoBlockConfig, DuplicateLabelConfig, EdgeConfig, OffPageConfig,
                              SentinelConfig, TripleDimensionsConfig}

CoreFiles ==
    SingleBlockConfigs \cup {EdgeConfig, SentinelConfig, UnknownStepConfig, MalformedConfig}

\* The bubbles of a template, and the corners of those whose rectangle is
\* inside the page.
AllBubbles(t) ==
    UNION {Range(Flatten(t.field_blocks[i].traverse_bubbles)) : i \in 1..Len(t.field_blocks)}

SampledCorners(t) ==
    {<<b.x, b.y>> : b \in {c \in AllBubbles(t) :
        RectInImage(c, 0, t.bubble_dimensions,
                    <<t.page_dimensions[2], t.page_dimensions[1]>>)}}

\* Grey levels of a bubble rectangle (ink, paper) and global thresholds (the
\* default 200 scaled by GAMMA_LOW = 0.7, and one equal to the paper level).
Intensities == {60, 200}
GlobalThrs == {140, 200}

\* Sheets drawn by a rule: blank, option A of every question filled, options
\* A and B filled.
PatternImages(t) ==
    {[mean |-> [c \in SampledCorners(t) |-> IF c[1] < limit THEN 60 ELSE 200],
      global_thr |-> 140] : limit \in {0, 100, 150}}

\* The images a template is run on: every assignment of grey levels to its
\* sampled rectangles while they are few, the patterns otherwise.
Images(t) ==
    IF Cardinality(SampledCorners(t)) <= MaxFullPositions
    THEN {[mean |-> m, global_thr |-> g] :
              m \in [SampledCorners(t) -> Intensities], g \in GlobalThrs}
    ELSE PatternImages(t)

\* Answer keys over q1..qMaxLabels: each label absent or one of the values.
Absent == <<"(absent)">>

KeyDict(f) ==
    LET present == SelectSeq([j \in 1..MaxLabels |-> j], LAMBDA j : f[j] # Absent)
    IN  [k \in 1..Len(present) |-> <<Label(present[k]), f[present[k]]>>]

AnswerKeys(values) == {KeyDict(f) : f \in [1..MaxLabels -> values \cup {Absent}]}

\* The scenario of the specification: key [A, B, C, D], responses A, "", AC, B.
ScenarioKey ==
    << <<"q1", <<"A">>>>, <<"q2", <<"B">>>>, <<"q3", <<"C">>>>, <<"q4", <<"D">>>> >>

ScenarioResponse ==
    << <<"q1", <<"A">>>>, <<"q2", <<>>>>, <<"q3", <<"A", "C">>>>, <<"q4", <<"B">>>> >>

\* The fully-correct scenario: responses A, B, C, D against key [A, B, C, D].
ScenarioCorrectResponse ==
    << <<"q1", <<"A">>>>, <<"q2", <<"B">>>>, <<"q3", <<"C">>>>, <<"q4", <<"D">>>> >>

EvalAnswerKeys == AnswerKeys({<<"A">>, <<"A", "C">>}) \cup {ScenarioKey}

EvalSchemes ==
    {[correct |-> c, incorrect |-> i, unmarked |-> u] :
        c \in -MaxPoints..MaxPoints, i \in -MaxPoints..0, u \in 0..MaxPoints}
    \cup {NoDefaultScheme}

\* Response maps over q1..qn, n <= MaxLabels.
EvalResponses ==
    UNION {{[j \in 1..n |-> <<Label(j), f[j]>>] :
               f \in [1..n -> {<<>>, <<"A">>, <<"B">>, <<"A", "C">>}]} : n \in 0..MaxLabels}
    \cup {ScenarioResponse, ScenarioCorrectResponse}

\* Evaluators of the pipeline runs: a key for q1 (absent, A or AB) under the
\* default scheme, a scheme with negative marking, or none.
CoreEvaluators ==
    {[answer_key |-> k, marking_scheme |-> m] :
        k \in {<<>>, << <<"q1", <<"A">>>> >>, << <<"q1", <<"A", "B">>>> >>},
        m \in {DefaultScheme, [correct |-> 2, incorrect |-> -1, unmarked |-> 1],
               NoDefaultScheme}}

\* The image files of a batch directory: each decodes to a sheet with option
\* A filled, or does not decode.
FileContents(t) ==
    {Unreadable} \cup {[mean |-> [c \in SampledCorners(t) |-> IF c[1] < 100 THEN 60 ELSE 200],
                        global_thr |-> 140]}

FileLists(t) ==
    UNION {{[i \in 1..n |-> [name |-> "sheet" \o ToString(i) \o ".jpg", content |-> f[i]]] :
               f \in [1..n -> FileContents(t)]} : n \in 0..MaxFiles}

(***************************************************************************)
(* The state machine of one OMRCore                                        *)
(***************************************************************************)
Idle == [op |-> "none"]

Init ==
    /\ template = None
    /\ evaluator = None
    /\ lastCall = Idle
    /\ reqs = <<>>
    /\ disk = [generated |-> FileNotFound, default |-> FileNotFound, saved |-> FileNotFound]

\* The caller takes the result of the last call; calls do not overlap.
Return ==
    /\ lastCall # Idle
    /\ lastCall' = Idle
    /\ UNCHANGED <<template, evaluator, reqs, disk>>

\* omr_core.load_template(path) on a file holding one of `files`.
LoadTemplate(files) ==
    \E file \in files :
        LET r == load_template(template, file)
        IN  /\ lastCall = Idle
            /\ template' = r.template
            /\ lastCall' = [op |-> "load_template", file |-> file, ret |-> r.ret]
            /\ UNCHANGED <<evaluator, reqs, disk>>

\* omr_core.evaluator = OMREvaluator(config) with an inline answer key.
ConfigureEvaluator(evaluators) ==
    \E ev \in evaluators :
        /\ lastCall = Idle
        /\ evaluator' = ev
        /\ lastCall' = [op |-> "configure_evaluator"]
        /\ UNCHANGED <<template, reqs, disk>>

\* bubble_detector.detect_bubbles(image, template) on a detector built for
\* one of the page types.
DetectBubbles ==
    /\ lastCall = Idle
    /\ template # None
    /\ \E image \in Images(template) \cup {BadImage}, page_type \in {"white", "black"} :
          lastCall' = [op |-> "detect_bubbles", image |-> image, page_type |-> page_type,
                       out |-> DetectWith(image, template, DefaultThresholdFor(page_type))]
    /\ UNCHANGED <<template, evaluator, reqs, disk>>

\* bubble_detector.detect_bubble_with_confidence(image, bubble, dims, threshold)
\* on a grey image of the page size.
DetectBubbleWithConfidence ==
    /\ lastCall = Idle
    /\ template # None
    /\ \E image \in PatternImages(template), bubble \in AllBubbles(template),
          threshold \in GlobalThrs :
          lastCall' = [op |-> "detect_bubble_with_confidence", bubble |-> bubble,
                       out |-> detect_bubble_with_confidence(
                                   [shape |-> <<template.page_dimensions[2],
                                                template.page_dimensions[1]>>,
                                    mean |-> image.mean],
                                   bubble, template.bubble_dimensions, threshold)]
    /\ UNCHANGED <<template, evaluator, reqs, disk>>

\* evaluator.evaluate_omr_response(omr_response)
EvaluateOmrResponse ==
    /\ lastCall = Idle
    /\ evaluator # None
    /\ \E omr_response \in EvalResponses :
          lastCall' = [op |-> "evaluate_omr_response", omr_response |-> omr_response,
                       report |-> evaluate_omr_response(omr_response, evaluator)]
    /\ UNCHANGED <<template, evaluator, reqs, disk>>

\* omr_core.process_omr_image(image)
ProcessOmrImage ==
    /\ lastCall = Idle
    /\ \E image \in (IF template = None THEN {} ELSE Images(template)) \cup {BadImage} :
          lastCall' = [op |-> "process_omr_image", image |-> image,
                       results |-> process_omr_image(template, evaluator, image)]
    /\ UNCHANGED <<template, evaluator, reqs, disk>>

\* omr_core.process_omr_image(image) right after another sheet was processed.
ProcessNextImage ==
    /\ lastCall.op = "process_omr_image"
    /\ template # None
    /\ LET previous ==
               [success |-> lastCall.results.success,
                global_threshold |->
                    IF lastCall.results.success
                    THEN lastCall.results.detection_metadata.global_threshold
                    ELSE 0]
       IN  \E image \in PatternImages(template) :
              lastCall' = [op |-> "process_omr_image", image |-> image,
                           previous |-> previous,
                           results |-> process_next_image(template, evaluator,
                                                          previous, image)]
    /\ UNCHANGED <<template, evaluator, reqs, disk>>

\* omr_core.batch_process(input_dir, output_dir)
BatchProcess ==
    /\ lastCall = Idle
    /\ \E input_exists \in BOOLEAN, output_dir \in {"None", "writable", "unwritable"} :
       \E omr_files \in (IF template = None THEN {<<>>} ELSE FileLists(template)) :
          lastCall' = [op |-> "batch_process", input_exists |-> input_exists,
                       omr_files |-> omr_files, output_dir |-> output_dir,
                       results |-> batch_process(template, evaluator, input_exists,
                                                 omr_files, output_dir)]
    /\ UNCHANGED <<template, evaluator, reqs, disk>>

\* The evaluation engine alone.
NextEval ==
    \/ ConfigureEvaluator({[answer_key |-> k, marking_scheme |-> m] :
                              k \in EvalAnswerKeys, m \in EvalSchemes})
    \/ EvaluateOmrResponse
    \/ Return

SpecEval == Init /\ [][NextEval]_vars

\* The detector alone.
NextDetect ==
    \/ LoadTemplate(DetectFiles)
    \/ DetectBubbles
    \/ DetectBubbleWithConfidence
    \/ Return

SpecDetect == Init /\ [][NextDetect]_vars

\* The orchestrator.
NextCore ==
    \/ LoadTemplate(CoreFiles)
    \/ ConfigureEvaluator(CoreEvaluators)
    \/ ProcessOmrImage
    \/ ProcessNextImage
    \/ BatchProcess
    \/ Return

SpecCore == Init /\ [][NextCore]_vars

(***************************************************************************)
(* services/omr_processor.py and main.py: the /process-omr endpoint        *)
(***************************************************************************)
\* The points of a request at which its coroutine gives the event loop back.
\* process_omr awaits file.read() before process_sheet; process_sheet has no
\* await between rebinding the core and process_omr_image, and the coroutines
\* awaited after it (_generate_overlay_image, save_omr_result) contain none.
SuspendsAfterSetup(point) == point \in {"file.read", "setup"}

Suspends(point) == point \in {"file.read"}

Subject(name, questions, answer_key, answer_key_is_list) ==
    [name |-> name, questions |-> questions, answer_key |-> answer_key,
     answer_key_is_list |-> answer_key_is_list]

\* The test_data of a request: none, one subject of one question (key A or
\* B), a subject whose answer_key is null, a subject without questions.
NoTestData == [subjects |-> <<>>, answerKey |-> <<>>]

TestData ==
    {NoTestData,
     [subjects |-> <<Subject("Math", 1, <<<<"A">>>>, TRUE)>>, answerKey |-> <<<<"A">>>>],
     [subjects |-> <<Subject("Physics", 1, <<<<"B">>>>, TRUE)>>, answerKey |-> <<<<"B">>>>],
     [subjects |-> <<Subject("Chemistry", 1, <<>>, FALSE)>>, answerKey |-> <<<<"C">>>>],
     [subjects |-> <<Subject("Empty", 0, <<>>, TRUE)>>, answerKey |-> <<<<"A">>>>]}

\* The uploaded sheets: option A of every question filled, or option B.
ServerImages ==
    LET corners == {<<b.x, b.y>> : b \in AllBubbles(TemplateCtor(default_config))}
    IN  {[mean |-> [c \in corners |-> IF c[1] = x THEN 60 ELSE 200], global_thr |-> 140] :
            x \in {50, 100}}

\* No coroutine is executing: the event loop can resume a suspended one.
LoopFree == \A k \in 1..Len(reqs) : ~reqs[k].on_loop

HasTestData(r) == Len(r.test_subjects) > 0 /\ Len(r.test_answer_key) > 0

\* The subject list and answer key process_sheet falls back to when the
\* default template cannot be loaded.
DefaultSubjects == <<Subject("Default", 20, [k \in 1..20 |-> <<"A">>], TRUE)>>

\* "Setup template and evaluator from test data" of process_sheet: the core's
\* template and evaluator afterwards, the template files, and whether the
\* request goes on.
SetupFromTestDataIn(r, t, ev, d) ==
    [template  |-> create_template_from_test_data(t, r.test_subjects).template,
     evaluator |-> IF create_template_from_test_data(t, r.test_subjects).ret
                   THEN setup_evaluator(ev, r.test_subjects, r.test_answer_key)
                   ELSE ev,
     disk |-> [d EXCEPT !.generated = generated_config(r.test_subjects)],
     ok |-> create_template_from_test_data(t, r.test_subjects).ret]

SetupFromTestData(r) == SetupFromTestDataIn(r, template, evaluator, disk)

\* The else branch of process_sheet: the default template file is loaded
\* (and created when absent); only when that fails is an evaluator set up.
SetupDefaultIn(t, ev, d) ==
    IF load_template(t, d.default).ret
    THEN [template |-> load_template(t, d.default).template,
          evaluator |-> ev,
          disk |-> [d EXCEPT !.default =
                        IF @ = FileNotFound THEN default_config ELSE @],
          ok |-> TRUE]
    ELSE [template |-> create_template_from_test_data(
                           load_template(t, d.default).template,
                           DefaultSubjects).template,
          evaluator |-> setup_evaluator(ev, <<>>, <<>>),
          disk |-> [d EXCEPT !.generated = generated_config(DefaultSubjects)],
          ok |-> TRUE]

SetupDefault == SetupDefaultIn(template, evaluator, disk)

SetupOutcome(r) == IF HasTestData(r) THEN SetupFromTestData(r) ELSE SetupDefault

\* A client posts a sheet: process_omr parses test_data and suspends at
\* await file.read().
Arrive ==
    /\ Len(reqs) < MaxRequests
    /\ \E data \in TestData, image \in ServerImages :
          reqs' = Append(reqs, [pc |-> "reading", on_loop |-> ~Suspends("file.read"),
                                test_subjects |-> data.subjects,
                                test_answer_key |-> data.answerKey,
                                image |-> image,
                                used_template |-> None, used_evaluator |-> None,
                                results |-> None])
    /\ UNCHANGED <<template, evaluator, lastCall, disk>>

\* The loop resumes request i, which enters process_sheet and rebinds the core.
Setup(i) ==
    /\ reqs[i].pc = "reading"
    /\ reqs[i].on_loop \/ LoopFree
    /\ template' = SetupOutcome(reqs[i]).template
    /\ evaluator' = SetupOutcome(reqs[i]).evaluator
    /\ disk' = SetupOutcome(reqs[i]).disk
    /\ reqs' = [reqs EXCEPT ![i].pc = IF SetupOutcome(reqs[i]).ok THEN "bound" ELSE "failed",
                            ![i].on_loop = ~SetupOutcome(reqs[i]).ok \/ ~Suspends("setup")]
    /\ UNCHANGED lastCall

\* Request i runs self.omr_core.process_omr_image(cv_image, filename).
Process(i) ==
    /\ reqs[i].pc = "bound"
    /\ reqs[i].on_loop \/ LoopFree
    /\ reqs' = [reqs EXCEPT ![i].pc = "processed",
                            ![i].on_loop = TRUE,
                            ![i].used_template = template,
                            ![i].used_evaluator = evaluator,
                            ![i].results = process_omr_image(template, evaluator,
                                                             reqs[i].image)]
    /\ UNCHANGED <<template, evaluator, lastCall, disk>>

\* Request i builds its response (or the error response) and returns.
Respond(i) ==
    /\ reqs[i].pc \in {"processed", "failed"}
    /\ reqs[i].on_loop
    /\ reqs' = [reqs EXCEPT ![i].pc = "done", ![i].on_loop = FALSE]
    /\ UNCHANGED <<template, evaluator, lastCall, disk>>

\* The server starts with a fresh OMRProcessor; templates/default_template.json
\* is absent or left unreadable by an earlier run.
InitServer ==
    /\ template = None
    /\ evaluator = None
    /\ lastCall = Idle
    /\ reqs = <<>>
    /\ disk \in {[generated |-> FileNotFound, default |-> d, saved |-> FileNotFound] :
                    d \in {FileNotFound, MalformedConfig}}

NextServer ==
    \/ Arrive
    \/ \E i \in 1..Len(reqs) : Setup(i)
    \/ \E i \in 1..Len(reqs) : Process(i)
    \/ \E i \in 1..Len(reqs) : Respond(i)

SpecServer == InitServer /\ [][NextServer]_vars

(***************************************************************************)
(* services/omr_processor.py: OMRProcessor._convert_to_subject_scores      *)
(***************************************************************************)
\* subject.get("name", f"Subject_{i+1}") for the 1-based position i.
SubjectName(test_subjects, i) ==
    IF "name" \in DOMAIN test_subjects[i] THEN test_subjects[i].name
    ELSE "Subject_" \o ToString(i)

\* current_question when the loop reaches subject i.
CurrentQuestion(test_subjects, i) ==
    1 + SumSeq([k \in 1..(i - 1) |-> test_subjects[k].questions])

\* subject_score of one subject: the results j in
\* range(current_question, current_question + subject_questions) that exist
\* and have verdict "correct".
SliceCorrect(evaluation_results, current_question, subject_questions) ==
    Cardinality({j \in current_question..(current_question + subject_questions - 1) :
                    /\ j <= Len(evaluation_results)
                    /\ evaluation_results[j].verdict = "correct"})

\* The subject_scores dict after the loop: subject_scores[subject_name] =
\* subject_score, subject by subject.
SubjectScoresDict(scoring_report, test_subjects) ==
    DictUpdate(<<>>, [i \in 1..Len(test_subjects) |->
                        <<SubjectName(test_subjects, i),
                          SliceCorrect(scoring_report.evaluation_results,
                                       CurrentQuestion(test_subjects, i),
                                       test_subjects[i].questions)>>])

\* subject_scores.get(subjects_list[k] if len(subjects_list) > k else fallback, 0)
\* for the 1-based position k.
LegacyScore(subject_scores, k, fallback) ==
    DictGet(subject_scores,
            IF Len(subject_scores) >= k THEN subject_scores[k][1] ELSE fallback, 0)

\* _convert_to_subject_scores(scoring_report, test_subjects): the SubjectScores
\* returned.  The five legacy fields are fractions <<numerator, denominator>>
\* (total_score * 0.2 is <<total_score, 5>>); subject_scores is the dynamic
\* dict, None in the default mapping.
convert_to_subject_scores(scoring_report, test_subjects) ==
    IF Len(test_subjects) > 0
    THEN [math   |-> <<LegacyScore(SubjectScoresDict(scoring_report, test_subjects),
                                   1, "Math"), 1>>,
          ai_ml  |-> <<LegacyScore(SubjectScoresDict(scoring_report, test_subjects),
                                   2, "AI/ML"), 1>>,
          stats  |-> <<LegacyScore(SubjectScoresDict(scoring_report, test_subjects),
                                   3, "Stats"), 1>>,
          python |-> <<LegacyScore(SubjectScoresDict(scoring_report, test_subjects),
                                   4, "Python"), 1>>,
          genai  |-> <<LegacyScore(SubjectScoresDict(scoring_report, test_subjects),
                                   5, "GenAI"), 1>>,
          total  |-> scoring_report.total_score,
          subject_scores |->
              DictUpdate(<< <<"Total", scoring_report.total_score>> >>,
                         SubjectScoresDict(scoring_report, test_subjects))]
    ELSE [math   |-> <<scoring_report.total_score, 5>>,
          ai_ml  |-> <<scoring_report.total_score, 5>>,
          stats  |-> <<scoring_report.total_score, 5>>,
          python |-> <<scoring_report.total_score, 5>>,
          genai  |-> <<scoring_report.total_score, 5>>,
          total  |-> scoring_report.total_score,
          subject_scores |-> None]

\* Bound of the subject lists.
MaxSubjects == 2

\* The subjects a caller names: Math or Physics with one or two questions, a
\* subject without a name, a subject without questions.
SubjectEntries ==
    {[name |-> n, questions |-> q] : n \in {"Math", "Physics"}, q \in 1..2}
    \cup {[questions |-> 1], [name |-> "Stats", questions |-> 0]}

SubjectLists ==
    UNION {[1..n -> SubjectEntries] : n \in 0..MaxSubjects}

\* Evaluators of the sheets whose subject scores are computed.
SubjectEvaluators ==
    {[answer_key |-> ScenarioKey, marking_scheme |-> m] :
        m \in {DefaultScheme, [correct |-> 2, incorrect |-> -1, unmarked |-> 0]}}

\* process_sheet converts the scoring report it has just obtained.
ConvertToSubjectScores ==
    /\ lastCall.op = "evaluate_omr_response"
    /\ \E test_subjects \in SubjectLists :
          lastCall' = [op |-> "convert_to_subject_scores",
                       report |-> lastCall.report,
                       test_subjects |-> test_subjects,
                       scores |-> convert_to_subject_scores(lastCall.report,
                                                            test_subjects)]
    /\ UNCHANGED <<template, evaluator, reqs, disk>>

\* The evaluator followed by the conversion of its report.
NextSubjects ==
    \/ ConfigureEvaluator(SubjectEvaluators)
    \/ EvaluateOmrResponse
    \/ ConvertToSubjectScores
    \/ Return

SpecSubjects == Init /\ [][NextSubjects]_vars

(***************************************************************************)
(* The preprocessing steps alone and inside the pipeline                   *)
(***************************************************************************)
\* The step objects: each class, Levels with and without each of its two
\* halves, CropOnMarkers with and without a marker file.
StepProcessors ==
    {create_processor("CropPage", NoOptions), create_processor("GaussianBlur", NoOptions)}
    \cup {create_processor("Levels", [NoOptions EXCEPT !.gamma_set = g, !.scale_set = s]) :
             g \in BOOLEAN, s \in BOOLEAN}
    \cup {create_processor("CropOnMarkers", [NoOptions EXCEPT !.marker_path_exists = m]) :
             m \in BOOLEAN}

FaultPoints == UNION {0..Stages(processor_name) : processor_name \in PROCESSORS}

StepEnvs ==
    {[fault |-> f, page |-> p, markers |-> m] :
        f \in FaultPoints, p \in BOOLEAN,
        m \in {"unreadable", "no_scale", "low_confidence", "matched"}}

\* What the steps of a pipeline run meet: their markerPath is unset, so the
\* marker matching plays no part.
PipelineEnvs == {env \in StepEnvs : env.markers = "matched"}

\* A scan as read, the same once resized, and an image no library call takes.
Scan == [mean |-> <<>>, global_thr |-> 140]

StepImages == {Scan, Transformed(Scan, "resize"), BadImage}

StepFiles == {TwoBlockConfig, EdgeConfig, SentinelConfig, UnknownStepConfig}

StepEvaluators == {[answer_key |-> << <<"q1", <<"A">>>> >>, marking_scheme |-> DefaultScheme]}

\* processor.apply_filter(image, file_path)
ApplyFilter ==
    /\ lastCall = Idle
    /\ \E processor \in StepProcessors, image \in StepImages, env \in StepEnvs :
          lastCall' = [op |-> "apply_filter", processor |-> processor, image |-> image,
                       env |-> env, out |-> apply_filter(processor, image, env)]
    /\ UNCHANGED <<template, evaluator, reqs, disk>>

\* omr_core.process_omr_image(image), whatever its steps meet.
ProcessOmrImageIn ==
    /\ lastCall = Idle
    /\ template # None
    /\ \E image \in PatternImages(template) \cup {BadImage} :
       \E envs \in [1..Len(create_processors_from_config(
                               template.preprocessors_config).processors) -> PipelineEnvs] :
          lastCall' = [op |-> "process_omr_image", image |-> image, envs |-> envs,
                       results |-> process_omr_image_in(template, evaluator, image, envs)]
    /\ UNCHANGED <<template, evaluator, reqs, disk>>

NextSteps ==
    \/ LoadTemplate(StepFiles)
    \/ ConfigureEvaluator(StepEvaluators)
    \/ ApplyFilter
    \/ ProcessOmrImageIn
    \/ Return

SpecSteps == Init /\ [][NextSteps]_vars

(***************************************************************************)
(* The template loader alone                                               *)
(***************************************************************************)
\* The blocks of the template files: every supported field type with
\* bubblesGap negative, zero and positive and zero to MaxLabels labels; an
\* origin off the page and a negative labelsGap.
TemplateBlocks ==
    {[fieldType |-> ft, origin |-> <<50, 100>>, bubblesGap |-> bg, labelsGap |-> 60,
      fieldLabels |-> LabelsFrom(1, n)] :
        ft \in SupportedFieldTypes, bg \in {-1, 0, 50}, n \in 0..MaxLabels}
    \cup {[fieldType |-> ft, origin |-> <<-10, 0>>, bubblesGap |-> 50, labelsGap |-> -1,
           fieldLabels |-> LabelsFrom(1, MaxLabels)] : ft \in SupportedFieldTypes}

\* pageDimensions and bubbleDimensions: too few, too many, zero and negative
\* entries beside the usual ones.
PageDimensions == {<<666, 820>>, <<666>>, <<>>, <<0, 820>>, <<666, -820>>}
BubbleDimensions == {<<20, 20>>, <<20, 20, 3>>, <<0, 20>>, <<-20, -20>>}

\* A block of a field type generate_bubble_grid does not know.
UnsupportedTypeConfig ==
    Config(<< <<"Questions", [McqBlock(<<50, 100>>, <<"q1">>)
                                 EXCEPT !.fieldType = "QTYPE_MCQ6"]>> >>, <<>>, <<>>)

TemplateFiles ==
    {Config(<< <<"Questions", block>> >>, <<>>, <<"CropPage">>) : block \in TemplateBlocks}
    \cup {[Config(<< <<"Questions", McqBlock(<<50, 100>>, <<"q1">>)>> >>, <<>>, <<>>)
              EXCEPT !.pageDimensions = d[1], !.bubbleDimensions = d[2]] :
              d \in {e \in PageDimensions \X BubbleDimensions :
                         e[1] = <<666, 820>> \/ e[2] = <<20, 20>>}}
    \cup {TwoBlockConfig, Config(<<>>, <<>>, <<>>), UnsupportedTypeConfig, MalformedConfig}

\* template.validate_template()
ValidateTemplate ==
    /\ lastCall = Idle
    /\ template # None
    /\ lastCall' = [op |-> "validate_template", ret |-> validate_template(template)]
    /\ UNCHANGED <<template, evaluator, reqs, disk>>

\* template.save_template(output_path)
SaveTemplate ==
    /\ lastCall = Idle
    /\ template # None
    /\ disk' = [disk EXCEPT !.saved = to_dict(template)]
    /\ lastCall' = [op |-> "save_template"]
    /\ UNCHANGED <<template, evaluator, reqs>>

\* omr_core.load_template(output_path) on the path save_template writes to.
\* While no file is there, Template.create_default_template writes the default
\* configuration to the path and loads it.
LoadSavedTemplate ==
    LET r == load_template(template, disk.saved)
    IN  /\ lastCall = Idle
        /\ template' = r.template
        /\ disk' = IF disk.saved = FileNotFound THEN [disk EXCEPT !.saved = default_config]
                   ELSE disk
        /\ lastCall' = [op |-> "load_template", file |-> disk.saved, ret |-> r.ret,
                        path |-> "saved"]
        /\ UNCHANGED <<evaluator, reqs>>

NextTemplate ==
    \/ LoadTemplate(TemplateFiles)
    \/ ValidateTemplate
    \/ SaveTemplate
    \/ LoadSavedTemplate
    \/ Return

SpecTemplate == Init /\ [][NextTemplate]_vars

(***************************************************************************)
(* The two threshold functions alone                                       *)
(***************************************************************************)
MaxPixels == 4

\* 8-bit pixel values: both ends of the range, two pairs 30 apart and one
\* odd distance.
PixelValues == {0, 10, 30, 40, 101, 255}

PixelLists == UNION {[1..n -> PixelValues] : n \in 0..MaxPixels}

\* GAMMA_LOW in tenths: the default 0.7, no correction, and above 1.
GammaLows == {7, 10, 12}

\* Mean intensities of the bubbles of a block, some of them 26, 30 and 32
\* apart.
BlockValues == {100, 126, 130, 132, 200}

BlockLists == UNION {[1..n -> BlockValues] : n \in 0..MaxPixels}

\* bubble_detector.get_global_threshold(gray) on a detector built from a
\* tuning configuration.
GetGlobalThreshold ==
    /\ lastCall = Idle
    /\ \E q_vals_orig \in PixelLists, gamma_low \in GammaLows,
          page_type \in {"white", "black"} :
          lastCall' = [op |-> "get_global_threshold", image |-> q_vals_orig,
                       min_jump |-> MIN_JUMP, gamma_low |-> gamma_low,
                       page_type |-> page_type,
                       out |-> get_global_threshold(q_vals_orig, MIN_JUMP, gamma_low,
                                                    DefaultThresholdFor(page_type))]
    /\ UNCHANGED <<template, evaluator, reqs, disk>>

\* bubble_detector.get_local_threshold(q_vals, global_thr)
GetLocalThreshold ==
    /\ lastCall = Idle
    /\ \E q_vals \in BlockLists, global_thr \in GlobalThrs, confident_surplus \in {0, 5} :
          lastCall' = [op |-> "get_local_threshold", q_vals |-> q_vals,
                       global_thr |-> global_thr, min_jump |-> MIN_JUMP,
                       confident_surplus |-> confident_surplus,
                       out |-> get_local_threshold_in(q_vals, global_thr, MIN_GAP,
                                                      MIN_JUMP, confident_surplus)]
    /\ UNCHANGED <<template, evaluator, reqs, disk>>

NextThreshold ==
    \/ GetGlobalThreshold
    \/ GetLocalThreshold
    \/ Return

SpecThreshold == Init /\ [][NextThreshold]_vars

(***************************************************************************)
(* Properties                                                              *)
(***************************************************************************)
\* The value the answer key gives a question, "" when it has none.
KeyValue(answer_key, question) ==
    IF \E k \in 1..Len(answer_key) : answer_key[k][1] = question
    THEN answer_key[CHOOSE k \in 1..Len(answer_key) : answer_key[k][1] = question][2]
    ELSE <<>>

\* An evaluate_omr_response call that has produced its report from a scheme.
Evaluated ==
    /\ lastCall.op = "evaluate_omr_response"
    /\ evaluator.marking_scheme # NoDefaultScheme

\* C1: evaluate_omr_response gives every question its verdict by strict
\* precedence, for every response and every answer-key value: equal to the
\* correct value -> correct; otherwise empty -> unmarked; otherwise longer
\* than one -> multi_marked; otherwise incorrect.  The scenario {q1:A, q2:"",
\* q3:AC, q4:B} against [A,B,C,D] under 1/0/0 gives correct, unmarked,
\* multi_marked, incorrect and total 1.
C1_VerdictPrecedence ==
    Evaluated =>
        /\ Len(lastCall.report.evaluation_results) = Len(lastCall.omr_response)
        /\ \A i \in 1..Len(lastCall.omr_response) :
              LET question == lastCall.omr_response[i][1]
                  response == lastCall.omr_response[i][2]
                  correct == KeyValue(evaluator.answer_key, question)
                  r == lastCall.report.evaluation_results[i]
              IN  /\ r.question = question
                  /\ r.verdict =
                        IF response = correct THEN "correct"
                        ELSE IF response = <<>> THEN "unmarked"
                        ELSE IF Len(response) > 1 THEN "multi_marked"
                        ELSE "incorrect"
        /\ (/\ lastCall.omr_response = ScenarioResponse
            /\ evaluator.answer_key = ScenarioKey
            /\ evaluator.marking_scheme = DefaultScheme)
           => /\ [i \in 1..4 |-> lastCall.report.evaluation_results[i].verdict]
                    = <<"correct", "unmarked", "multi_marked", "incorrect">>
              /\ lastCall.report.total_score = 1

\* The scenario has been evaluated.
C1_Witness ==
    /\ Evaluated
    /\ lastCall.omr_response = ScenarioResponse
    /\ evaluator.answer_key = ScenarioKey
    /\ evaluator.marking_scheme = DefaultScheme
    /\ lastCall.report.total_score = 1
    /\ lastCall.report.multi_marked_answers = 1

\* A process_omr_image call that went through the pipeline.
Processed ==
    /\ lastCall.op = "process_omr_image"
    /\ lastCall.results.success

\* The questions of the last pipeline run as <<block, question>> index pairs.
Questions ==
    UNION {{<<b, j>> : j \in 1..Len(lastCall.results.blocks[b].detected)} :
              b \in 1..Len(lastCall.results.blocks)}

\* The evaluation results of the last pipeline run for one label.
ResultsFor(label) ==
    {lastCall.results.scoring_report.evaluation_results[i] :
        i \in {k \in 1..Len(lastCall.results.scoring_report.evaluation_results) :
                  lastCall.results.scoring_report.evaluation_results[k].question = label}}

\* C2 (as stated): for every marking scheme and every answer key, a question
\* with two or more of its own bubbles marked gets verdict multi_marked and
\* contributes 0.
C2_MultiMarkedAlwaysZero ==
    Processed =>
        \A q \in Questions :
            LET detected == lastCall.results.blocks[q[1]].detected[q[2]]
            IN  Len(detected) >= 2 =>
                    \A r \in ResultsFor(detected[1].field_label) :
                        r.verdict = "multi_marked" /\ r.score = 0

\* C2 (amended): a question with two or more of its own bubbles marked gets
\* verdict multi_marked and contributes 0 unless the concatenation of the
\* marked values equals its answer-key value; then it is correct and earns
\* the scheme's correct points.
C2_MultiMarkedUnlessEqualToKey ==
    Processed =>
        \A q \in Questions :
            LET detected == lastCall.results.blocks[q[1]].detected[q[2]]
                response == [k \in 1..Len(detected) |-> detected[k].field_value]
            IN  Len(detected) >= 2 =>
                    \A r \in ResultsFor(detected[1].field_label) :
                        IF response = KeyValue(evaluator.answer_key, detected[1].field_label)
                        THEN r.verdict = "correct"
                             /\ r.score = evaluator.marking_scheme.correct
                        ELSE r.verdict = "multi_marked" /\ r.score = 0

\* A multi-marked question scored 0 under a scheme with negative marking.
C2_Witness ==
    /\ Processed
    /\ evaluator.marking_scheme # NoDefaultScheme
    /\ evaluator.marking_scheme.incorrect < 0
    /\ \E q \in Questions :
          /\ Len(lastCall.results.blocks[q[1]].detected[q[2]]) >= 2
          /\ \E r \in ResultsFor(lastCall.results.blocks[q[1]].detected[q[2]][1].field_label) :
                r.verdict = "multi_marked" /\ r.score = 0

\* C3 (as stated): a question present in the response map but absent from
\* the answer key has the empty correct value and is never given verdict
\* correct, whatever its response, the empty one included.
C3_AbsentKeyNeverCorrect ==
    Evaluated =>
        \A i \in 1..Len(lastCall.report.evaluation_results) :
            LET r == lastCall.report.evaluation_results[i]
            IN  r.question \notin DictKeys(evaluator.answer_key) =>
                    r.correct_answer = <<>> /\ r.verdict # "correct"

\* A blank response to a question without a key, scored as correct.
C3_Witness ==
    /\ Evaluated
    /\ evaluator.marking_scheme.correct > 0
    /\ \E i \in 1..Len(lastCall.report.evaluation_results) :
          LET r == lastCall.report.evaluation_results[i]
          IN  /\ r.question \notin DictKeys(evaluator.answer_key)
              /\ r.student_answer = <<>>
              /\ r.verdict = "correct"
              /\ r.score = evaluator.marking_scheme.correct

\* C4: process_omr_image without a template or without an evaluator returns
\* the structured failure (success false, a message, empty omr_response,
\* scoring_report None), the missing template reported first, and runs no
\* stage of the pipeline.
C4_MissingPreconditionFails ==
    (lastCall.op = "process_omr_image" /\ (template = None \/ evaluator = None)) =>
        /\ lastCall.results.success = FALSE
        /\ lastCall.results.error = IF template = None THEN "No template loaded"
                                    ELSE "No evaluator setup"
        /\ lastCall.results.omr_response = <<>>
        /\ lastCall.results.scoring_report = None
        /\ lastCall.results.stages = <<>>

\* A call with neither template nor evaluator.
C4_Witness ==
    /\ lastCall.op = "process_omr_image"
    /\ template = None
    /\ evaluator = None
    /\ lastCall.results.success = FALSE
    /\ lastCall.results.error = "No template loaded"

\* C5 (as stated): process_omr_image fails only when the template or the
\* evaluator is missing; a fault inside a sub-component, building the
\* preprocessing steps included, still gives success.
C5_FailsOnlyOnPreconditions ==
    (lastCall.op = "process_omr_image" /\ ~lastCall.results.success) =>
        (template = None \/ evaluator = None)

\* A call with template and evaluator that fails on the preProcessors list.
C5_Witness ==
    /\ lastCall.op = "process_omr_image"
    /\ template # None
    /\ evaluator # None
    /\ \E i \in 1..Len(template.preprocessors_config) :
          template.preprocessors_config[i] \notin PROCESSORS \cup {""}
    /\ lastCall.results.success = FALSE
    /\ lastCall.results.stages = <<>>

\* The test data of a request yields both a template and an evaluator.
BindsBoth(r) ==
    /\ HasTestData(r)
    /\ validate_template(TemplateCtor(generated_config(r.test_subjects)))
    /\ ~AnswersRaise(r.test_subjects)

\* C6 (as stated): two requests in flight can interleave: after one has
\* rebound the core and before it runs process_omr_image, the other can
\* rebind it.
C6_RequestsInterleave ==
    \A i \in 1..Len(reqs) : \A j \in 1..Len(reqs) :
        (i # j /\ reqs[i].pc = "bound" /\ reqs[j].pc = "reading") => ENABLED Setup(j)

\* C6 (amended): requests are serialized between suspension points, and
\* process_sheet has none between rebinding and process_omr_image: at most
\* one request is executing, and a request whose test data yields a template
\* and an evaluator is detected and scored with its own, whatever other
\* requests are in flight.
C6_OwnBindingUsed ==
    /\ Cardinality({k \in 1..Len(reqs) : reqs[k].on_loop}) <= 1
    /\ \A i \in 1..Len(reqs) :
          (reqs[i].results # None /\ HasTestData(reqs[i])) =>
              /\ reqs[i].used_template
                     = TemplateCtor(generated_config(reqs[i].test_subjects))
              /\ BindsBoth(reqs[i]) =>
                     reqs[i].used_evaluator
                         = [answer_key |-> SubjectAnswers(reqs[i].test_subjects, 1, 1, <<>>),
                            marking_scheme |-> DefaultScheme]

\* Two requests with different test data in flight together: one has just
\* been processed with its own bindings while the other waits for its file.
C6_Witness ==
    /\ Len(reqs) = 2
    /\ reqs[1].pc = "reading"
    /\ reqs[2].pc = "processed"
    /\ BindsBoth(reqs[1])
    /\ BindsBoth(reqs[2])
    /\ reqs[1].test_subjects # reqs[2].test_subjects
    /\ reqs[2].results.success
    /\ reqs[2].used_template = template

\* C7 (as stated): batch_process returns one entry per image file found,
\* whatever happens while handling a file, a failure to write the file's
\* visualization included.
C7_OneEntryPerFile ==
    (lastCall.op = "batch_process" /\ lastCall.input_exists) =>
        /\ Len(lastCall.results) = Len(lastCall.omr_files)
        /\ \A i \in 1..Len(lastCall.results) :
              lastCall.results[i].file_name = lastCall.omr_files[i].name

\* A batch of an unreadable and a readable file that returns nothing.
C7_Witness ==
    /\ lastCall.op = "batch_process"
    /\ lastCall.input_exists
    /\ lastCall.output_dir = "unwritable"
    /\ Len(lastCall.omr_files) = 2
    /\ lastCall.omr_files[1].content = Unreadable
    /\ lastCall.omr_files[2].content # Unreadable
    /\ lastCall.results = <<>>

\* The bubbles of the last detect_bubbles call as <<block, question, bubble>>
\* index triples.
DetectedPositions ==
    UNION {{<<b, j, k>> : j \in 1..Len(template.field_blocks[b].traverse_bubbles),
                          k \in 1..Len(field_types[template.field_blocks[b].field_type]
                                           .bubble_values)} :
              b \in 1..Len(lastCall.out.blocks)}

BubbleAt(p) == template.field_blocks[p[1]].traverse_bubbles[p[2]][p[3]]

InBounds(p) ==
    RectInImage(BubbleAt(p), template.field_blocks[p[1]].shift, template.bubble_dimensions,
                <<template.page_dimensions[2], template.page_dimensions[1]>>)

ClassifiedMarked(p) ==
    \E d \in 1..Len(lastCall.out.blocks[p[1]].detected[p[2]]) :
        lastCall.out.blocks[p[1]].detected[p[2]][d] = BubbleAt(p)

IntensityAt(p) == lastCall.image.mean[<<BubbleAt(p).x, BubbleAt(p).y>>]

\* C8: under the block's local threshold T, every in-bounds bubble with
\* intensity strictly below T is classified marked, and no bubble with
\* intensity >= T is (intensity equal to T is unmarked).
C8_StrictlyBelowThreshold ==
    lastCall.op = "detect_bubbles" =>
        \A p \in DetectedPositions :
            (~lastCall.out.blocks[p[1]].failed /\ InBounds(p)) =>
                (ClassifiedMarked(p) <=> IntensityAt(p) < lastCall.out.blocks[p[1]].local_thr)

\* One block with a bubble exactly at its threshold, left unmarked, and one
\* with a bubble below its threshold, marked.
C8_Witness ==
    /\ lastCall.op = "detect_bubbles"
    /\ \A b \in 1..Len(lastCall.out.blocks) : ~lastCall.out.blocks[b].failed
    /\ \E p \in DetectedPositions :
          /\ InBounds(p)
          /\ IntensityAt(p) = lastCall.out.blocks[p[1]].local_thr
          /\ ~ClassifiedMarked(p)
    /\ \E p \in DetectedPositions :
          /\ InBounds(p)
          /\ IntensityAt(p) < lastCall.out.blocks[p[1]].local_thr
          /\ ClassifiedMarked(p)

\* A detect_bubbles call that did not fail, on a template with pairwise
\* distinct labels.
DetectedDistinct ==
    /\ lastCall.op = "detect_bubbles"
    /\ lastCall.image # BadImage
    /\ \A b \in 1..Len(lastCall.out.blocks) : ~lastCall.out.blocks[b].failed
    /\ Cardinality(Range(TemplateLabels(template))) = Len(TemplateLabels(template))

\* The values of the bubbles of question j of block b that are in bounds and
\* strictly darker than the block's threshold, in domain order.
OwnMarkedValues(b, j) ==
    LET positions == SelectSeq(
            [k \in 1..Len(template.field_blocks[b].traverse_bubbles[j]) |-> <<b, j, k>>],
            LAMBDA p : InBounds(p) /\ IntensityAt(p) < lastCall.out.blocks[b].local_thr)
    IN  [n \in 1..Len(positions) |-> BubbleAt(positions[n]).field_value]

ResponseOf(label) ==
    lastCall.out.omr_response[
        CHOOSE i \in 1..Len(lastCall.out.omr_response) :
            lastCall.out.omr_response[i][1] = label][2]

\* C9: with pairwise distinct labels and no internal failure, the output has
\* exactly one response per declared label, each resolved from the question's
\* own bubbles: none marked -> the empty sentinel, the label in neither list;
\* one marked -> its value, the label in final_marked; two or more -> the
\* concatenation in domain order, the label in multi_marked; the two lists
\* are disjoint.
C9_OneResponsePerLabel ==
    DetectedDistinct =>
        /\ [i \in 1..Len(lastCall.out.omr_response) |-> lastCall.out.omr_response[i][1]]
               = TemplateLabels(template)
        /\ \A b \in 1..Len(template.field_blocks) :
           \A j \in 1..Len(template.field_blocks[b].field_labels) :
              LET label == template.field_blocks[b].field_labels[j]
                  values == OwnMarkedValues(b, j)
                  in_final == label \in Range(lastCall.out.final_marked)
                  in_multi == label \in Range(lastCall.out.multi_marked)
              IN  CASE Len(values) = 0 ->
                         /\ ResponseOf(label) = template.empty_value
                         /\ ~in_final /\ ~in_multi
                    [] Len(values) = 1 ->
                         /\ ResponseOf(label) = values
                         /\ in_final /\ ~in_multi
                    [] OTHER ->
                         /\ ResponseOf(label) = values
                         /\ in_multi /\ ~in_final
        /\ Range(lastCall.out.final_marked) \cap Range(lastCall.out.multi_marked) = {}

\* A sheet with a singly marked and a multi-marked question.
C9_Witness ==
    /\ DetectedDistinct
    /\ Len(lastCall.out.final_marked) = 1
    /\ Len(lastCall.out.multi_marked) = 1
    /\ Len(ResponseOf(lastCall.out.multi_marked[1])) >= 2

\* A pipeline run on a sheet on which no bubble was classified marked.
BlankSheetProcessed ==
    /\ Processed
    /\ lastCall.image # BadImage
    /\ evaluator.marking_scheme # NoDefaultScheme
    /\ \A q \in Questions : lastCall.results.blocks[q[1]].detected[q[2]] = <<>>

\* C10 (as stated): on an all-blank sheet every response is the template's
\* empty sentinel, every verdict is unmarked and the total is the number of
\* questions times the scheme's unmarked points, for every sentinel, answer
\* key and scheme.
C10_BlankSheetAllUnmarked ==
    BlankSheetProcessed =>
        /\ \A i \in 1..Len(lastCall.results.omr_response) :
              lastCall.results.omr_response[i][2] = template.empty_value
        /\ \A i \in 1..Len(lastCall.results.scoring_report.evaluation_results) :
              lastCall.results.scoring_report.evaluation_results[i].verdict = "unmarked"
        /\ lastCall.results.scoring_report.total_score
               = Len(lastCall.results.omr_response) * evaluator.marking_scheme.unmarked

\* A blank sheet of a template whose sentinel is "-": its question is
\* scored as answered wrongly.
C10_Witness ==
    /\ BlankSheetProcessed
    /\ template.empty_value = <<"-">>
    /\ Len(lastCall.results.scoring_report.evaluation_results) = 1
    /\ lastCall.results.scoring_report.evaluation_results[1].verdict = "incorrect"
    /\ lastCall.results.scoring_report.total_score = evaluator.marking_scheme.incorrect

\* The last evaluation had a question, and every question was answered with
\* a single value equal to its answer-key value.
FullyCorrectSheet ==
    /\ Evaluated
    /\ Len(lastCall.omr_response) > 0
    /\ \A i \in 1..Len(lastCall.omr_response) :
          /\ Len(lastCall.omr_response[i][2]) = 1
          /\ lastCall.omr_response[i][1] \in DictKeys(evaluator.answer_key)
          /\ lastCall.omr_response[i][2]
                 = KeyValue(evaluator.answer_key, lastCall.omr_response[i][1])

\* The percentage of a report, a fraction <<numerator, denominator>>, is p.
PercentageIs(report, p) == report.percentage[1] = p * report.percentage[2]

\* C11 (as stated): on a fully-correct sheet correct_answers is the number of
\* questions, the other counts are 0 and the percentage is 100, for every
\* marking scheme.
C11_FullyCorrectIsHundred ==
    FullyCorrectSheet =>
        /\ lastCall.report.correct_answers = Len(lastCall.omr_response)
        /\ lastCall.report.incorrect_answers = 0
        /\ lastCall.report.unmarked_answers = 0
        /\ lastCall.report.multi_marked_answers = 0
        /\ PercentageIs(lastCall.report, 100)

\* C11 (amended): on a fully-correct sheet the counts are as stated for every
\* marking scheme; the percentage is 100 when the scheme's correct points are
\* positive, and 0 when the maximum possible score is 0 (correct points 0).  Key [A,B,C,D] with responses
\* A,B,C,D under 1/0/0 gives total 4, max 4, percentage 100.
C11_FullyCorrectPositiveScheme ==
    FullyCorrectSheet =>
        /\ lastCall.report.correct_answers = Len(lastCall.omr_response)
        /\ lastCall.report.incorrect_answers = 0
        /\ lastCall.report.unmarked_answers = 0
        /\ lastCall.report.multi_marked_answers = 0
        /\ evaluator.marking_scheme.correct > 0 => PercentageIs(lastCall.report, 100)
        /\ lastCall.report.max_possible_score = 0 => PercentageIs(lastCall.report, 0)
        /\ (/\ lastCall.omr_response = ScenarioCorrectResponse
            /\ evaluator.marking_scheme = DefaultScheme)
           => /\ lastCall.report.total_score = 4
              /\ lastCall.report.max_possible_score = 4
              /\ PercentageIs(lastCall.report, 100)

\* The fully-correct scenario has been evaluated under the default scheme.
C11_Witness ==
    /\ FullyCorrectSheet
    /\ lastCall.omr_response = ScenarioCorrectResponse
    /\ evaluator.answer_key = ScenarioKey
    /\ evaluator.marking_scheme = DefaultScheme
    /\ lastCall.report.correct_answers = 4
    /\ lastCall.report.percentage = <<400, 4>>

\* C12 (as stated): in every report max_possible_score is the number of
\* evaluated questions times the scheme's correct points, and percentage is
\* total_score / max_possible_score x 100 whenever max_possible_score is not
\* 0 and 0 when it is 0, negative point values included.
C12_PercentageOfMax ==
    Evaluated =>
        /\ lastCall.report.max_possible_score
               = Len(lastCall.omr_response) * evaluator.marking_scheme.correct
        /\ IF lastCall.report.max_possible_score # 0
           THEN lastCall.report.percentage[1] * lastCall.report.max_possible_score
                    = lastCall.report.total_score * 100 * lastCall.report.percentage[2]
           ELSE PercentageIs(lastCall.report, 0)

\* A report with a negative maximum and a non-zero total whose percentage is 0.
C12_Witness ==
    /\ Evaluated
    /\ lastCall.report.max_possible_score < 0
    /\ lastCall.report.total_score # 0
    /\ PercentageIs(lastCall.report, 0)

\* A conversion with caller-supplied subjects.
Converted ==
    /\ lastCall.op = "convert_to_subject_scores"
    /\ Len(lastCall.test_subjects) > 0

\* The score reported for the subject at position i.
ReportedScore(i) ==
    DictGet(lastCall.scores.subject_scores, SubjectName(lastCall.test_subjects, i), None)

\* The correct verdicts among the results at the positions of subject i.
CorrectInSlice(i) ==
    Cardinality({j \in 1..Len(lastCall.report.evaluation_results) :
        /\ j > SumSeq([k \in 1..(i - 1) |-> lastCall.test_subjects[k].questions])
        /\ j <= SumSeq([k \in 1..i |-> lastCall.test_subjects[k].questions])
        /\ lastCall.report.evaluation_results[j].verdict = "correct"})

\* C13 (as stated): for subject boundaries (name_1, n_1) .. (name_k, n_k) the
\* score reported for subject i is the number of correct verdicts among the
\* results at positions n_1+..+n_(i-1)+1 .. n_1+..+n_i; when the n_i sum to
\* the number of evaluated questions, the reported scores sum to
\* correct_answers.
C13_SubjectScoreIsSliceCount ==
    Converted =>
        /\ \A i \in 1..Len(lastCall.test_subjects) : ReportedScore(i) = CorrectInSlice(i)
        /\ SumSeq([k \in 1..Len(lastCall.test_subjects) |->
                      lastCall.test_subjects[k].questions])
               = Len(lastCall.report.evaluation_results)
           => SumSeq([n \in 1..(Len(lastCall.scores.subject_scores) - 1) |->
                         lastCall.scores.subject_scores[n + 1][2]])
                  = lastCall.report.correct_answers

\* Two subjects of the same name covering the whole sheet: the first one's
\* correct answer is reported nowhere.
C13_Witness ==
    /\ Converted
    /\ Len(lastCall.test_subjects) = 2
    /\ SubjectName(lastCall.test_subjects, 1) = SubjectName(lastCall.test_subjects, 2)
    /\ lastCall.test_subjects[1].questions + lastCall.test_subjects[2].questions
           = Len(lastCall.report.evaluation_results)
    /\ CorrectInSlice(1) = 1
    /\ CorrectInSlice(2) = 0
    /\ ReportedScore(1) = 0
    /\ lastCall.report.correct_answers = 1
    /\ Len(lastCall.scores.subject_scores) = 2

\* The intensities of the in-bounds bubbles of block b, in traversal order.
InBoundsIntensities(b) ==
    LET positions ==
            Flatten([j \in 1..Len(template.field_blocks[b].traverse_bubbles) |->
                SelectSeq([k \in 1..Len(template.field_blocks[b].traverse_bubbles[j]) |->
                              <<b, j, k>>], InBounds)])
    IN  [n \in 1..Len(positions) |-> IntensityAt(positions[n])]

\* C14: a bubble whose rectangle is not entirely inside the image is left
\* out of the intensities that give its block's local threshold and is never
\* classified marked, whatever the threshold; the other bubbles of the block
\* are still classified and every question of the block still gets a
\* response.  detect_bubble_with_confidence reports such a bubble unmarked.
C14_OutOfBoundsSkipped ==
    /\ (/\ lastCall.op = "detect_bubbles"
        /\ lastCall.image # BadImage
        /\ \A b \in 1..Len(lastCall.out.blocks) : ~lastCall.out.blocks[b].failed) =>
          /\ Len(lastCall.out.blocks) = Len(template.field_blocks)
          /\ \A b \in 1..Len(template.field_blocks) :
                /\ lastCall.out.blocks[b].local_thr
                       = get_local_threshold(InBoundsIntensities(b), lastCall.image.global_thr)
                /\ \A j \in 1..Len(template.field_blocks[b].field_labels) :
                      \E i \in 1..Len(lastCall.out.omr_response) :
                          lastCall.out.omr_response[i][1]
                              = template.field_blocks[b].field_labels[j]
          /\ \A p \in DetectedPositions :
                IF InBounds(p)
                THEN ClassifiedMarked(p)
                         <=> IntensityAt(p) < lastCall.out.blocks[p[1]].local_thr
                ELSE ~ClassifiedMarked(p)
    /\ lastCall.op = "detect_bubble_with_confidence" =>
          (~RectInImage(lastCall.bubble, 0, template.bubble_dimensions,
                        <<template.page_dimensions[2], template.page_dimensions[1]>>)
              => ~lastCall.out.is_marked)

\* A block with bubbles outside the page whose in-bounds bubbles are one
\* marked and one not, under a threshold taken from those two alone.
C14_Witness ==
    /\ lastCall.op = "detect_bubbles"
    /\ lastCall.image # BadImage
    /\ \A b \in 1..Len(lastCall.out.blocks) : ~lastCall.out.blocks[b].failed
    /\ \E p \in DetectedPositions : ~InBounds(p)
    /\ \E p \in DetectedPositions : InBounds(p) /\ ClassifiedMarked(p)
    /\ \E p \in DetectedPositions : InBounds(p) /\ ~ClassifiedMarked(p)
    /\ lastCall.out.blocks[1].local_thr = 130
    /\ Len(lastCall.out.omr_response) = 1

\* The result of the last detect_bubbles call is all-empty.
AllEmptyResult ==
    /\ lastCall.out.omr_response = <<>>
    /\ lastCall.out.final_marked = <<>>
    /\ lastCall.out.multi_marked = <<>>
    /\ lastCall.out.multi_roll = <<>>

\* A step of the last detect_bubbles call failed: the image could not be
\* resized, or a process_field_block call raised.
DetectionStepFailed ==
    /\ lastCall.op = "detect_bubbles"
    /\ \/ lastCall.image = BadImage
       \/ \E b \in 1..Len(lastCall.out.blocks) : lastCall.out.blocks[b].failed

FilterApplied == lastCall.op = "apply_filter"

\* C16: whenever an internal error occurs inside apply_filter of any of the
\* four step kinds, the step returns exactly the image it received; CropPage
\* without a qualifying contour and CropOnMarkers with a quadrant match below
\* the minimum confidence return their input too.
C16_ErrorReturnsInput ==
    FilterApplied =>
        /\ lastCall.out.error => lastCall.out.image = lastCall.image
        /\ (lastCall.processor.name = "CropPage" /\ ~lastCall.env.page)
               => lastCall.out.image = lastCall.image
        /\ (lastCall.processor.name = "CropOnMarkers"
               /\ lastCall.env.markers = "low_confidence")
               => lastCall.out.image = lastCall.image

\* A Levels step with both halves configured whose scaling raises after the
\* gamma correction went through: what comes back is the gamma-corrected
\* image.
C16_Witness ==
    /\ FilterApplied
    /\ lastCall.processor.name = "Levels"
    /\ lastCall.processor.options.gamma_set
    /\ lastCall.processor.options.scale_set
    /\ lastCall.image = Scan
    /\ lastCall.env.fault = 2
    /\ lastCall.out.error
    /\ History(lastCall.out.image) = <<"gamma">>

\* A process_omr_image call with template and evaluator set that ran through.
PipelineRan ==
    /\ lastCall.op = "process_omr_image"
    /\ template # None
    /\ evaluator # None
    /\ lastCall.results.success

\* The image after the first i listed steps, each applied to the output of
\* the one before it; the first receives the resized image.
RECURSIVE ChainAfter(_)
ChainAfter(i) ==
    IF i = 0 THEN Transformed(lastCall.image, "resize")
    ELSE apply_filter(create_processor(lastCall.results.steps[i], NoOptions),
                      ChainAfter(i - 1), lastCall.envs[i]).image

\* C17: a process_omr_image call with template and evaluator runs preprocess,
\* detect, evaluate, visualize once each in that order; the listed steps are
\* applied in list order, each to the previous one's output; detection gets
\* the last step's output; evaluation gets detection's response map, which is
\* also the omr_response of the bundle.
C17_StagesAndStepsInOrder ==
    PipelineRan =>
        LET r == lastCall.results
        IN  /\ r.stages = <<"preprocess", "detect", "evaluate", "visualize">>
            /\ [i \in 1..Len(r.calls) |-> r.calls[i].stage] = r.stages
            /\ r.steps = SelectSeq(template.preprocessors_config, LAMBDA n : n # "")
            /\ r.calls[1].arg = lastCall.image
            /\ lastCall.image # BadImage => r.calls[1].out = ChainAfter(Len(r.steps))
            /\ r.calls[2].arg = r.calls[1].out
            /\ r.calls[2].out = detect_bubbles(r.calls[1].out, template).omr_response
            /\ r.calls[3].arg = r.calls[2].out
            /\ r.omr_response = r.calls[2].out
            /\ r.scoring_report = evaluate_omr_response(r.calls[2].out, evaluator)
            /\ r.calls[4].arg = r.calls[1].out
            /\ r.visualization = visualize_detection(r.calls[1].out, template)

\* A run of two listed steps that both change the image, on a sheet with
\* option A of q1 filled.
C17_Witness ==
    /\ PipelineRan
    /\ lastCall.results.steps = <<"CropPage", "GaussianBlur">>
    /\ lastCall.image # BadImage
    /\ History(lastCall.results.calls[2].arg) = <<"resize", "CropPage", "GaussianBlur">>
    /\ \E k \in 1..Len(lastCall.results.omr_response) :
           lastCall.results.omr_response[k] = <<"q1", <<"A">>>>

\* The layout axis of a block: x for the MCQ types, y for QTYPE_INT.
AlongAxis(field_block, bubble) ==
    IF field_block.field_type = "QTYPE_INT" THEN bubble.y ELSE bubble.x

\* C18: every block the loader accepts has len(fieldLabels) questions of
\* domain-size bubbles each, and within each question the coordinate along
\* the layout axis strictly increases from each value to the next, whatever
\* integers bubblesGap and labelsGap are.
C18_GridStrictlyIncreasing ==
    template # None =>
        \A i \in 1..Len(template.field_blocks) :
            LET field_block == template.field_blocks[i]
                domain == field_types[field_block.field_type].bubble_values
            IN  /\ Len(field_block.traverse_bubbles) = Len(field_block.field_labels)
                /\ \A k \in 1..Len(field_block.traverse_bubbles) :
                      /\ Len(field_block.traverse_bubbles[k]) = Len(domain)
                      /\ \A b \in 1..(Len(domain) - 1) :
                            AlongAxis(field_block, field_block.traverse_bubbles[k][b])
                                < AlongAxis(field_block, field_block.traverse_bubbles[k][b + 1])

\* A loaded block with bubblesGap 0: the four bubbles of q1 share one point.
C18_Witness ==
    /\ template # None
    /\ Len(template.field_blocks) = 1
    /\ template.field_blocks[1].field_type = "QTYPE_MCQ4"
    /\ template.field_blocks[1].bubbles_gap = 0
    /\ Len(template.field_blocks[1].traverse_bubbles) > 0
    /\ \A b \in 1..4 : template.field_blocks[1].traverse_bubbles[1][b].x
                           = template.field_blocks[1].origin[1]

\* Exactly two positive integers.
TwoPositive(dimensions) ==
    /\ Len(dimensions) = 2
    /\ \A i \in 1..2 : dimensions[i] > 0

\* A validate_template call that has returned.
Validated == lastCall.op = "validate_template"

\* C19: validate_template returns true exactly when the page dimensions and
\* the bubble dimensions are two positive integers each, there is at least
\* one field block, and the grid of every field block is non-empty.
C19_ValidIffWellFormed ==
    Validated =>
        (lastCall.ret <=>
            /\ TwoPositive(template.page_dimensions)
            /\ TwoPositive(template.bubble_dimensions)
            /\ Len(template.field_blocks) >= 1
            /\ \A i \in 1..Len(template.field_blocks) :
                  Len(Flatten(template.field_blocks[i].traverse_bubbles)) > 0)

\* A template with a zero page width that validate_template accepts.
C19_Witness ==
    /\ Validated
    /\ lastCall.ret
    /\ template.page_dimensions = <<0, 820>>
    /\ template.bubble_dimensions = <<20, 20>>

\* The geometry of a template: its blocks in order, the questions of each in
\* order, and per bubble the point, the label and the value.
Geometry(t) ==
    [i \in 1..Len(t.field_blocks) |->
        [name |-> t.field_blocks[i].name,
         traverse_bubbles |-> t.field_blocks[i].traverse_bubbles]]

\* C20: the configuration to_dict gives for a loaded template, loaded again,
\* yields the same geometry; so does the file save_template wrote, and a
\* template loaded from that file serializes to the same file again.
C20_RoundTripKeepsGeometry ==
    /\ template # None =>
          /\ TemplateCtor(to_dict(template)) # Raise
          /\ Geometry(TemplateCtor(to_dict(template))) = Geometry(template)
    /\ lastCall.op = "save_template" =>
          Geometry(TemplateCtor(disk.saved)) = Geometry(template)
    /\ (lastCall.op = "load_template" /\ "path" \in DOMAIN lastCall) =>
          /\ Geometry(template) = Geometry(TemplateCtor(disk.saved))
          /\ to_dict(template) = disk.saved

\* A template of two blocks reloaded from the file it was saved to.
C20_Witness ==
    /\ lastCall.op = "load_template"
    /\ "path" \in DOMAIN lastCall
    /\ lastCall.ret
    /\ Len(template.field_blocks) = 2
    /\ template.field_blocks[2].traverse_bubbles[1][2].x = 100
    /\ template.field_blocks[2].traverse_bubbles[1][2].y = 160

\* A load_template call that has returned.
Loaded == lastCall.op = "load_template"

\* A configuration that is missing or malformed: no file, no JSON or a
\* required key missing, an unsupported fieldType, dimensions that are not
\* two positive integers.
BadConfiguration(file) ==
    \/ file \in {FileNotFound, MalformedConfig}
    \/ \E i \in 1..Len(file.fieldBlocks) :
           file.fieldBlocks[i][2].fieldType \notin SupportedFieldTypes
    \/ ~TwoPositive(file.pageDimensions)
    \/ ~TwoPositive(file.bubbleDimensions)

\* C21: load_template on a missing or malformed configuration returns False,
\* and no template built from that path is the active template afterwards.
C21_BadConfigurationIsFatal ==
    (Loaded /\ BadConfiguration(lastCall.file)) =>
        /\ ~lastCall.ret
        /\ \/ template = None
           \/ TemplateCtor(lastCall.file) = Raise
           \/ template # TemplateCtor(lastCall.file)

\* pageDimensions of one entry: load_template has returned False and the
\* template built from the file is the active one.
C21_Witness ==
    /\ Loaded
    /\ lastCall.file # FileNotFound
    /\ lastCall.file # MalformedConfig
    /\ lastCall.file.pageDimensions = <<666>>
    /\ ~lastCall.ret
    /\ template = TemplateCtor(lastCall.file)

GlobalThresholdTaken == lastCall.op = "get_global_threshold"

SortedPixels == Sorted(lastCall.image)

PixelGap(i) == SortedPixels[i + 1] - SortedPixels[i - 1]

PixelGapsAbove == {i \in 2..(Len(SortedPixels) - 1) : PixelGap(i) > lastCall.min_jump}

\* C23: when no adjacent-but-one gap of the sorted pixels exceeds min_jump,
\* get_global_threshold returns exactly the fixed default, 200 on a white
\* page and 100 otherwise, whatever GAMMA_LOW is.
C23_NoGapGivesDefault ==
    (GlobalThresholdTaken /\ PixelGapsAbove = {}) =>
        lastCall.out.thr1[1]
            = lastCall.out.thr1[2] * (IF lastCall.page_type = "white" THEN 200 ELSE 100)

\* A flat white page under GAMMA_LOW = 0.7: the threshold returned is 140.
C23_Witness ==
    /\ GlobalThresholdTaken
    /\ lastCall.image = <<255, 255, 255, 255>>
    /\ lastCall.gamma_low = 7
    /\ lastCall.page_type = "white"
    /\ lastCall.out.thr1[1] = 140 * lastCall.out.thr1[2]

\* The first of the largest gaps above min_jump.
LargestPixelGap ==
    CHOOSE i \in PixelGapsAbove :
        \A k \in PixelGapsAbove :
            PixelGap(k) < PixelGap(i) \/ (PixelGap(k) = PixelGap(i) /\ i <= k)

LocalThresholdTaken == lastCall.op = "get_local_threshold"

SortedBlock == Sorted(lastCall.q_vals)

BlockGap(i) == SortedBlock[i + 1] - SortedBlock[i - 1]

LargestBlockGap ==
    CHOOSE i \in 2..(Len(SortedBlock) - 1) :
        \A k \in 2..(Len(SortedBlock) - 1) :
            BlockGap(k) < BlockGap(i) \/ (BlockGap(k) = BlockGap(i) /\ i <= k)

\* C25: with three or more intensities get_local_threshold returns the
\* global threshold whenever the largest gap is at most min_jump +
\* confident_surplus, and the midpoint of that gap when it is larger; with
\* fewer it returns the global threshold or the mean.
C25_LowConfidenceFallsBack ==
    LocalThresholdTaken =>
        IF Len(lastCall.q_vals) >= 3
        THEN LET gap == BlockGap(LargestBlockGap)
             IN  IF gap <= lastCall.min_jump + lastCall.confident_surplus
                 THEN lastCall.out = lastCall.global_thr
                 ELSE lastCall.out = SortedBlock[LargestBlockGap - 1] + gap \div 2
        ELSE \/ lastCall.out = lastCall.global_thr
             \/ /\ Len(lastCall.q_vals) > 0
                /\ lastCall.out * Len(lastCall.q_vals) = SumSeq(lastCall.q_vals)

\* The default parameters and a largest gap of exactly 30 = min_jump +
\* confident_surplus: the midpoint 115 is returned, not the global threshold.
C25_Witness ==
    /\ LocalThresholdTaken
    /\ lastCall.confident_surplus = 5
    /\ SortedBlock = <<100, 100, 130, 130>>
    /\ lastCall.global_thr = 140
    /\ lastCall.out = 115

(***************************************************************************)
(* C26: requests served by one OMRProcessor                                *)
(***************************************************************************)
\* What process_sheet answers from the results of process_omr_image: the
\* results when they report success, the error response otherwise (the setup
\* raised, or results["success"] was false and process_sheet raised).
SheetOutcome(results) ==
    IF results = None THEN [error |-> TRUE]
    ELSE IF ~results.success THEN [error |-> TRUE]
    ELSE results

\* process_sheet for request r on a processor whose core has served no
\* request yet (template and evaluator still None), with the files on disk.
process_sheet_first(r) ==
    LET s == IF HasTestData(r) THEN SetupFromTestDataIn(r, None, None, disk)
             ELSE SetupDefaultIn(None, None, disk)
    IN  IF s.ok THEN process_omr_image(s.template, s.evaluator, r.image) ELSE None

Answered(r) == r.pc \in {"processed", "failed", "done"}

\* C26: the outcome of every answered request is the outcome the same request
\* would get as the first request of the processor: it does not depend on the
\* requests served before it, so a request without test data is not scored
\* with an earlier request's answer key and does not fail for want of one.
C26_OutcomeIndependentOfEarlierRequests ==
    \A i \in 1..Len(reqs) :
        Answered(reqs[i]) =>
            SheetOutcome(reqs[i].results) = SheetOutcome(process_sheet_first(reqs[i]))

\* A request without test data has been processed after a request with test
\* data was answered by the same processor.
C26_Witness ==
    \E i, j \in 1..Len(reqs) :
        /\ i # j
        /\ HasTestData(reqs[j]) /\ reqs[j].pc = "done" /\ reqs[j].results # None
        /\ ~HasTestData(reqs[i]) /\ reqs[i].pc = "processed"

(***************************************************************************)
(* Templates generated from test data, with the evaluator of the same data *)
(***************************************************************************)
\* The question counts a caller gives a subject: none, one, two, or more than
\* fit under one another on the page.
QuestionCounts == {0, 1, 2, 7}

\* The subjects of a test definition: named "Math" or without a name, every
\* answer "A".
GeneratedEntries ==
    {[name |-> "Math", questions |-> q, answer_key |-> [k \in 1..q |-> <<"A">>],
      answer_key_is_list |-> TRUE] : q \in QuestionCounts}
    \cup {[questions |-> q, answer_key |-> [k \in 1..q |-> <<"A">>],
           answer_key_is_list |-> TRUE] : q \in QuestionCounts}

GeneratedSubjectLists ==
    UNION {[1..n -> GeneratedEntries] : n \in 0..MaxSubjects}

\* The template files of a core that generates its templates: the path is
\* absent (the constructor writes the 20-question default) or unreadable.
GeneratedFiles == {FileNotFound, MalformedConfig}

\* omr_core.create_template_from_test_data(test_subjects, answer_key) on a
\* core whose evaluator has not been set up yet.
CreateTemplateFromTestData ==
    /\ lastCall = Idle
    /\ evaluator = None
    /\ \E test_subjects \in GeneratedSubjectLists :
          LET r == create_template_from_test_data(template, test_subjects)
          IN  /\ template' = r.template
              /\ disk' = [disk EXCEPT !.generated = generated_config(test_subjects)]
              /\ lastCall' = [op |-> "create_template_from_test_data",
                              test_subjects |-> test_subjects, ret |-> r.ret]
    /\ UNCHANGED <<evaluator, reqs>>

\* omr_core.setup_evaluator(test_subjects, answer_key) with the subject list
\* the template was just generated from and a non-empty answer key.
SetupEvaluator ==
    /\ lastCall.op = "create_template_from_test_data"
    /\ evaluator' = setup_evaluator(evaluator, lastCall.test_subjects, << <<"A">> >>)
    /\ lastCall' = [op |-> "setup_evaluator", test_subjects |-> lastCall.test_subjects]
    /\ UNCHANGED <<template, reqs, disk>>

NextGenerate ==
    \/ LoadTemplate(GeneratedFiles)
    \/ CreateTemplateFromTestData
    \/ SetupEvaluator
    \/ ProcessOmrImage
    \/ Return

SpecGenerate == Init /\ [][NextGenerate]_vars

(***************************************************************************)
(* C27: the active template and validation                                 *)
(***************************************************************************)
\* The call ran past the two checks at the head of process_omr_image.
PastPrecondition(results) ==
    IF results.success THEN TRUE
    ELSE results.error \notin {"No template loaded", "No evaluator setup"}

\* C27: the active template is None or passes validate_template, and a
\* process_omr_image call that got past its precondition check ran with a
\* template that passes validate_template.
C27_ActiveTemplateIsValid ==
    /\ template # None => validate_template(template)
    /\ (lastCall.op = "process_omr_image" /\ PastPrecondition(lastCall.results))
          => validate_template(template)

\* process_omr_image was called on a core with an evaluator after a template
\* generation that returned False (subjects without questions).
C27_Witness ==
    /\ lastCall.op = "process_omr_image"
    /\ evaluator # None
    /\ template # None
    /\ Len(template.field_blocks) = 0
    /\ disk.generated # FileNotFound

(***************************************************************************)
(* C28: labels of the generated template and of the answer key             *)
(***************************************************************************)
TotalQuestions(test_subjects) ==
    SumSeq([i \in 1..Len(test_subjects) |-> test_subjects[i].questions])

\* Both calls were made with one subject list (of at least one subject).
BothSetUp == lastCall.op = "setup_evaluator" /\ Len(lastCall.test_subjects) > 0

\* C28: after create_template_from_test_data and setup_evaluator on one
\* subject list, the labels of the template's field blocks are the keys of
\* the evaluator's answer key, and these are q1..qN for N the sum of the
\* subjects' question counts.
C28_TemplateLabelsAreAnswerKeyLabels ==
    BothSetUp =>
        /\ Range(TemplateLabels(template)) = DictKeys(evaluator.answer_key)
        /\ DictKeys(evaluator.answer_key)
               = {Label(j) : j \in 1..TotalQuestions(lastCall.test_subjects)}

\* Both calls were made with a list of two subjects of the same name that
\* both have questions.
C28_Witness ==
    /\ BothSetUp
    /\ \E i, j \in 1..Len(lastCall.test_subjects) :
          /\ i < j
          /\ lastCall.test_subjects[i].questions > 0
          /\ lastCall.test_subjects[j].questions > 0
          /\ SubjectName(lastCall.test_subjects, i) = SubjectName(lastCall.test_subjects, j)

(***************************************************************************)
(* C29, C30: geometry of generated templates                               *)
(***************************************************************************)
FromTestData == lastCall.op = "create_template_from_test_data"

FromDefault ==
    lastCall.op = "load_template" /\ lastCall.file = FileNotFound /\ template # None

\* C29: every bubble rectangle of a template generated from test data or of
\* the default template lies inside the template's page.
C29_BubblesInsidePage ==
    (FromTestData \/ FromDefault) =>
        \A b \in AllBubbles(template) :
            RectInImage(b, 0, template.bubble_dimensions,
                        <<template.page_dimensions[2], template.page_dimensions[1]>>)

\* The 20-question default template has just been created and loaded.
C29_Witness ==
    /\ FromDefault
    /\ template.page_dimensions = <<666, 820>>
    /\ template.bubble_dimensions = <<20, 20>>
    /\ Range(TemplateLabels(template)) = {Label(j) : j \in 1..20}

\* C30: in a template generated from test data, two bubbles of different
\* questions are at different positions.
C30_QuestionsDoNotOverlap ==
    FromTestData =>
        \A b1, b2 \in AllBubbles(template) :
            b1.field_label # b2.field_label => <<b1.x, b1.y>> # <<b2.x, b2.y>>

\* A template generated from two subjects of different names and different
\* positive question counts.
C30_Witness ==
    /\ FromTestData
    /\ Len(template.field_blocks) = 2
    /\ Len(template.field_blocks[1].field_labels)
           # Len(template.field_blocks[2].field_labels)

====
